---- MODULE Spec2Model ----
(***************************************************************************)
(* A model of the product comparator: the table-driven extractor and       *)
(* report of iter1.py and "final ig.py" (FIELD_RULES, extract_details,     *)
(* compare_strings, main) and the graded comparator with its LLM fallback  *)
(* of main.py (preprocess, the six field extractors, compare_field,        *)
(* compare_strings, call_llm_groq).                                        *)
(*                                                                         *)
(* A Python string is a sequence of one-character strings, so that         *)
(* searching, stripping, case folding and formatting are computed rather   *)
(* than assumed.  None is the value None below.                            *)
(***************************************************************************)
EXTENDS Integers, Sequences, FiniteSets, TLC

VARIABLES
    prog,        \* the entry point this behaviour runs
    pc,          \* the position in it
    in1, in2,    \* the two strings given: arguments, or what was typed
    s1, s2,      \* main.py: the preprocessed strings; iter1.py main(): the stripped ones
    pair_num,    \* compare_strings' order argument: pair_num, or aspect_order
    aspects,     \* the aspect order compare_strings selected
    d1, d2,      \* the records extract_details returned
    ai,          \* index of the next field / aspect of the running loop
    rows,        \* the rows added to the table, or appended to results
    val1, val2,  \* compare_field's arguments
    ratio, sem,  \* what fuzz.ratio and the embedding model answer for them
    status,      \* compare_field's classification
    oracleCalls, \* how many times the embedding model was invoked
    llmCalls,    \* how many requests call_llm_groq posted
    response,    \* what the LLM endpoint answers
    llmOut,      \* what call_llm_groq returned
    out,         \* what was printed, as a sequence of events
    round,       \* main(): comparison_count
    exitTyped    \* main(): "exit" has been entered

vars == <<prog, pc, in1, in2, s1, s2, pair_num, aspects, d1, d2, ai, rows, val1,
          val2, ratio, sem, status, oracleCalls, llmCalls, response, llmOut, out,
          round, exitTyped>>

\* the value of a variable the running entry point does not use
Unused == <<"unused">>

\* None: a sequence no string is
None == <<"None">>

(***************************************************************************)
(* Characters.                                                             *)
(***************************************************************************)
LowerMap == [A |-> "a", B |-> "b", C |-> "c", D |-> "d", E |-> "e", F |-> "f",
             G |-> "g", H |-> "h", I |-> "i", J |-> "j", K |-> "k", L |-> "l",
             M |-> "m", N |-> "n", O |-> "o", P |-> "p", Q |-> "q", R |-> "r",
             S |-> "s", T |-> "t", U |-> "u", V |-> "v", W |-> "w", X |-> "x",
             Y |-> "y", Z |-> "z"]

UpperMap == [a |-> "A", b |-> "B", c |-> "C", d |-> "D", e |-> "E", f |-> "F",
             g |-> "G", h |-> "H", i |-> "I", j |-> "J", k |-> "K", l |-> "L",
             m |-> "M", n |-> "N", o |-> "O", p |-> "P", q |-> "Q", r |-> "R",
             s |-> "S", t |-> "T", u |-> "U", v |-> "V", w |-> "W", x |-> "X",
             y |-> "Y", z |-> "Z"]

\* str.lower() and str.upper() on one character
LowerChar(c) == IF c \in DOMAIN LowerMap THEN LowerMap[c] ELSE c

UpperChar(c) == IF c \in DOMAIN UpperMap THEN UpperMap[c] ELSE c

DigitChars == {"0", "1", "2", "3", "4", "5", "6", "7", "8", "9"}

\* \w
WordChars == DOMAIN LowerMap \cup DOMAIN UpperMap \cup DigitChars \cup {"_"}

\* \s, and what str.strip() removes
SpaceChars == {" ", "\t", "\n", "\r", "\f"}

(***************************************************************************)
(* Regular expressions, as the syntax trees re compiles them to.           *)
(***************************************************************************)
Lit(s) == [t |-> "lit", s |-> s]

Rep(cl, lo, hi) == [t |-> "rep", cl |-> cl, lo |-> lo, hi |-> hi, inf |-> FALSE]

RepInf(cl, lo) == [t |-> "rep", cl |-> cl, lo |-> lo, hi |-> lo, inf |-> TRUE]

Opt(r) == [t |-> "opt", r |-> r]

Cat(rs) == [t |-> "cat", rs |-> rs]

Alt(rs) == [t |-> "alt", rs |-> rs]

Grp(n, r) == [t |-> "grp", n |-> n, r |-> r]

Ref(n) == [t |-> "ref", n |-> n]

Bol == [t |-> "bol"]

Eol == [t |-> "eol"]

Wb == [t |-> "wb"]

\* character classes: a set of characters, a set of categories, negation
Cls(chars, cats) == [neg |-> FALSE, chars |-> chars, cats |-> cats]

NotCls(chars, cats) == [neg |-> TRUE, chars |-> chars, cats |-> cats]

\* "." without DOTALL
AnyChar == NotCls({"\n"}, {})

InCats(c, cats) ==
    \/ "d" \in cats /\ c \in DigitChars
    \/ "s" \in cats /\ c \in SpaceChars
    \/ "w" \in cats /\ c \in WordChars

InClass(c, cl, ic) ==
    LET base(x) == x \in cl.chars \/ InCats(x, cl.cats)
        hit == base(c) \/ (ic /\ (base(LowerChar(c)) \/ base(UpperChar(c))))
    IN  hit # cl.neg

\* two characters are the same, up to case under re.IGNORECASE
SameChar(a, b, ic) == a = b \/ (ic /\ LowerChar(a) = LowerChar(b))

\* s occurs in text at position p
LitAt(text, p, s, ic) ==
    /\ p + Len(s) - 1 <= Len(text)
    /\ \A i \in 1..Len(s) : SameChar(text[p + i - 1], s[i], ic)

IsWordAt(text, p) == p >= 1 /\ p <= Len(text) /\ text[p] \in WordChars

\* no group has matched
NoCaps == << <<0, 0>>, <<0, 0>> >>

NoMatch == [found |-> FALSE]

SetMin(S) == CHOOSE x \in S : \A y \in S : x <= y

SetMax(S) == CHOOSE x \in S : \A y \in S : x >= y

\* how many characters of the class follow position p, at most max
RunLen(text, p, cl, ic, max) ==
    LET lim == IF max < Len(text) - p + 1 THEN max ELSE Len(text) - p + 1
        stop == {i \in 1..lim : ~InClass(text[p + i - 1], cl, ic)}
    IN  IF stop = {} THEN lim ELSE SetMin(stop) - 1

RECURSIVE MatchK(_, _, _, _, _), TryRep(_, _, _, _, _, _, _), TryAlt(_, _, _, _, _, _, _)
\* Backtracking match of the nodes k, in sequence, at position p: the first
\* way re finds, as [found, end, caps].
MatchK(k, text, p, caps, ic) ==
    IF k = <<>> THEN [found |-> TRUE, end |-> p, caps |-> caps]
    ELSE
    LET n == Head(k)
        rest == Tail(k)
    IN  CASE n.t = "lit" ->
                IF LitAt(text, p, n.s, ic)
                THEN MatchK(rest, text, p + Len(n.s), caps, ic)
                ELSE NoMatch
          [] n.t = "rep" ->
                LET run == RunLen(text, p, n.cl, ic,
                                  IF n.inf THEN Len(text) ELSE n.hi)
                IN  TryRep(run, n.lo, rest, text, p, caps, ic)
          [] n.t = "opt" ->
                LET m == MatchK(<<n.r>> \o rest, text, p, caps, ic)
                IN  IF m.found THEN m ELSE MatchK(rest, text, p, caps, ic)
          [] n.t = "cat" -> MatchK(n.rs \o rest, text, p, caps, ic)
          [] n.t = "alt" -> TryAlt(n.rs, 1, rest, text, p, caps, ic)
          [] n.t = "grp" ->
                MatchK(<<n.r, [t |-> "end", n |-> n.n, from |-> p]>> \o rest,
                       text, p, caps, ic)
          [] n.t = "end" ->
                MatchK(rest, text, p, [caps EXCEPT ![n.n] = <<n.from, p>>], ic)
          [] n.t = "ref" ->
                LET g == SubSeq(text, caps[n.n][1], caps[n.n][2] - 1)
                IN  IF caps[n.n] # <<0, 0>> /\ LitAt(text, p, g, ic)
                    THEN MatchK(rest, text, p + Len(g), caps, ic)
                    ELSE NoMatch
          [] n.t = "bol" ->
                IF p = 1 \/ text[p - 1] = "\n"
                THEN MatchK(rest, text, p, caps, ic) ELSE NoMatch
          [] n.t = "eol" ->
                IF p = Len(text) + 1 \/ text[p] = "\n"
                THEN MatchK(rest, text, p, caps, ic) ELSE NoMatch
          [] n.t = "wb" ->
                IF IsWordAt(text, p - 1) # IsWordAt(text, p)
                THEN MatchK(rest, text, p, caps, ic) ELSE NoMatch

\* greedy repetition: the longest run first, then shorter ones
TryRep(run, lo, rest, text, p, caps, ic) ==
    LET ok == {j \in lo..run : MatchK(rest, text, p + j, caps, ic).found}
    IN  IF ok = {} THEN NoMatch
        ELSE MatchK(rest, text, p + SetMax(ok), caps, ic)

\* alternation: the branches in order
TryAlt(rs, i, rest, text, p, caps, ic) ==
    IF i > Len(rs) THEN NoMatch
    ELSE LET m == MatchK(<<rs[i]>> \o rest, text, p, caps, ic)
         IN  IF m.found THEN m ELSE TryAlt(rs, i + 1, rest, text, p, caps, ic)

\* re.search(pattern, text, flags): the leftmost match, or no match
Search(re, text, ic) ==
    LET starts == {p \in 1..(Len(text) + 1) :
                      MatchK(<<re>>, text, p, NoCaps, ic).found}
    IN  IF starts = {} THEN NoMatch
        ELSE LET p == SetMin(starts)
                 m == MatchK(<<re>>, text, p, NoCaps, ic)
             IN  [found |-> TRUE, start |-> p, end |-> m.end, caps |-> m.caps,
                  string |-> text]

\* m.group(n), m.group(0)
Group(m, n) ==
    IF n = 0 THEN SubSeq(m.string, m.start, m.end - 1)
    ELSE SubSeq(m.string, m.caps[n][1], m.caps[n][2] - 1)

(***************************************************************************)
(* String methods.                                                         *)
(***************************************************************************)
\* str.strip()
Strip(s) ==
    LET keep == {i \in 1..Len(s) : s[i] \notin SpaceChars}
    IN  IF keep = {} THEN <<>> ELSE SubSeq(s, SetMin(keep), SetMax(keep))

\* str.lower(), str.upper()
Lower(s) == [i \in 1..Len(s) |-> LowerChar(s[i])]

Upper(s) == [i \in 1..Len(s) |-> UpperChar(s[i])]

\* sub in s (case-sensitive)
Contains(s, sub) == \E p \in 1..(Len(s) + 1) : LitAt(s, p, sub, FALSE)

RECURSIVE Replace(_, _, _)
\* s.replace(old, new), old not empty: left to right, not overlapping
Replace(s, old, new) ==
    LET at == {p \in 1..Len(s) : LitAt(s, p, old, FALSE)}
    IN  IF at = {} THEN s
        ELSE LET p == SetMin(at)
             IN  SubSeq(s, 1, p - 1) \o new
                 \o Replace(SubSeq(s, p + Len(old), Len(s)), old, new)

(***************************************************************************)
(* FIELD_RULES: per field, the ordered (pattern, formatter) rules.  A      *)
(* formatter is the pieces its lambda concatenates; the two lambdas that   *)
(* look at m.string choose between two such lists.                         *)
(***************************************************************************)
Str(s) == [k |-> "str", s |-> s]

\* m.group(n)
GroupOf(n) == [k |-> "group", n |-> n, strip |-> FALSE]

\* m.group(n).strip()
StrippedGroupOf(n) == [k |-> "group", n |-> n, strip |-> TRUE]

\* lambda m: <parts>
Fmt(parts) == [sub |-> <<>>, then |-> parts, else |-> parts]

\* lambda m: <a> if <sub> in m.string else <b>
FmtIfIn(sub, a, b) == [sub |-> sub, then |-> a, else |-> b]

Digit == Cls({}, {"d"})

Space == Cls({}, {"s"})

Word == Cls({}, {"w"})

\* FIELD_RULES["Full Form"]
FullFormRules == <<
    \* r"ORDINARY PORTLAND CEMENT"
    [pattern |-> Lit(<<"O", "R", "D", "I", "N", "A", "R", "Y", " ", "P", "O", "R", "T", "L",
        "A", "N", "D", " ", "C", "E", "M", "E", "N", "T">>),
     formatter |-> Fmt(<<Str(<<"O", "R", "D", "I", "N", "A", "R", "Y", " ", "P", "O", "R", "T",
        "L", "A", "N", "D", " ", "C", "E", "M", "E", "N", "T", " ", "(", "f", "u", "l", "l",
        " ", "f", "o", "r", "m", ")">>)>>)],
    \* r"\bOPC\b"
    [pattern |-> Cat(<<Wb, Lit(<<"O", "P", "C">>), Wb>>),
     formatter |-> Fmt(<<Str(<<"O", "P", "C", " ", "(", "a", "b", "b", "r", "e", "v", "i", "a",
        "t", "e", "d", ")">>)>>)],
    \* r"TMT"
    [pattern |-> Lit(<<"T", "M", "T">>),
     formatter |-> Fmt(<<Str(<<"A", "b", "b", "r", "e", "v", "i", "a", "t", "e", "d", ":", " ",
        "\"", "T", "M", "T", "\"">>)>>)],
    \* r"HT STEEL STRAND"
    [pattern |-> Lit(<<"H", "T", " ", "S", "T", "E", "E", "L", " ", "S", "T", "R", "A", "N",
        "D">>),
     formatter |-> Fmt(<<Str(<<"F", "u", "l", "l", " ", "f", "o", "r", "m", ":", " ", "\"", "H",
        "T", " ", "S", "T", "E", "E", "L", " ", "S", "T", "R", "A", "N", "D", "\"">>)>>)],
    \* r"LRPCF"
    [pattern |-> Lit(<<"L", "R", "P", "C", "F">>),
     formatter |-> Fmt(<<Str(<<"A", "b", "b", "r", "e", "v", "i", "a", "t", "e", "d", ":", " ",
        "\"", "L", "R", "P", "C", "F", "\"">>)>>)],
    \* r"RIB BAR"
    [pattern |-> Lit(<<"R", "I", "B", " ", "B", "A", "R">>),
     formatter |-> Fmt(<<Str(<<"A", "b", "b", "r", "e", "v", "i", "a", "t", "e", "d", ":", " ",
        "R", "I", "B", " ", "B", "A", "R", " ", "+", " ", "C", "R", "S">>)>>)]
    >>

\* FIELD_RULES["Grade"]
GradeRules == <<
    \* r"GRADE\s*[:-]?\s*(\w+)"
    [pattern |-> Cat(<<Lit(<<"G", "R", "A", "D", "E">>), RepInf(Space, 0), Rep(Cls({":", "-"},
        {}), 0, 1), RepInf(Space, 0), Grp(1, RepInf(Word, 1))>>),
     formatter |-> Fmt(<<Str(<<"G", "R", "A", "D", "E", " ", ":", "-", " ">>), GroupOf(1)>>)],
    \* r"GRADE:-(\w+)"
    [pattern |-> Cat(<<Lit(<<"G", "R", "A", "D", "E", ":", "-">>), Grp(1, RepInf(Word, 1))>>),
     formatter |-> Fmt(<<Str(<<"G", "R", "A", "D", "E", ":", "-", " ">>), GroupOf(1)>>)],
    \* r"(FE_?500D|FE550D|1860|53)"
    [pattern |-> Grp(1, Alt(<<Cat(<<Lit(<<"F", "E">>), Rep(Cls({"_"}, {}), 0, 1), Lit(<<"5",
        "0", "0", "D">>)>>), Lit(<<"F", "E", "5", "5", "0", "D">>), Lit(<<"1", "8", "6", "0">>),
        Lit(<<"5", "3">>)>>)),
     formatter |-> Fmt(<<Str(<<"I", "n", "l", "i", "n", "e", ":", " ", "\"">>), GroupOf(1),
        Str(<<"\"">>)>>)],
    \* r"\b53\b"
    [pattern |-> Cat(<<Wb, Lit(<<"5", "3">>), Wb>>),
     formatter |-> FmtIfIn(<<"L", "O", "O", "S", "E">>, <<Str(<<"5", "3", " ", "(", "i", "n",
        "l", "i", "n", "e", ")">>)>>, <<Str(<<"5", "3", " ", "(", "i", "m", "p", "l", "i", "e",
        "d", ")">>)>>)]
    >>

\* FIELD_RULES["Form"]
FormRules == <<
    \* r"FORM\s*[:-]?\s*([^;]+)"
    [pattern |-> Cat(<<Lit(<<"F", "O", "R", "M">>), RepInf(Space, 0), Rep(Cls({":", "-"}, {}),
        0, 1), RepInf(Space, 0), Grp(1, RepInf(NotCls({";"}, {}), 1))>>),
     formatter |-> Fmt(<<Str(<<"F", "O", "R", "M", " ", ":", "-", " ">>),
        StrippedGroupOf(1)>>)],
    \* r"FORM:-([^;]+)"
    [pattern |-> Cat(<<Lit(<<"F", "O", "R", "M", ":", "-">>), Grp(1, RepInf(NotCls({";"}, {}),
        1))>>),
     formatter |-> Fmt(<<Str(<<"F", "O", "R", "M", ":", "-", " ">>), StrippedGroupOf(1)>>)],
    \* r"LOOSELOOSE"
    [pattern |-> Lit(<<"L", "O", "O", "S", "E", "L", "O", "O", "S", "E">>),
     formatter |-> Fmt(<<Str(<<"\"", "L", "O", "O", "S", "E", "L", "O", "O", "S", "E", "\"",
        " ", "(", "r", "e", "d", "u", "n", "d", "a", "n", "t", ")">>)>>)],
    \* r"LOOSE"
    [pattern |-> Lit(<<"L", "O", "O", "S", "E">>),
     formatter |-> Fmt(<<Str(<<"L", "O", "O", "S", "E">>)>>)],
    \* r"BULK"
    [pattern |-> Lit(<<"B", "U", "L", "K">>),
     formatter |-> Fmt(<<Str(<<"F", "O", "R", "M", " ", ":", "-", " ", "B", "u", "l", "k">>)>>)]
    >>

\* FIELD_RULES["Type"]
TypeRules == <<
    \* r"TYPE\s*[:-]?\s*([^;]+)"
    [pattern |-> Cat(<<Lit(<<"T", "Y", "P", "E">>), RepInf(Space, 0), Rep(Cls({":", "-"}, {}),
        0, 1), RepInf(Space, 0), Grp(1, RepInf(NotCls({";"}, {}), 1))>>),
     formatter |-> Fmt(<<Str(<<"T", "Y", "P", "E", " ", ":", "-", " ">>),
        StrippedGroupOf(1)>>)],
    \* r"TYPE:-([^;]+)"
    [pattern |-> Cat(<<Lit(<<"T", "Y", "P", "E", ":", "-">>), Grp(1, RepInf(NotCls({";"}, {}),
        1))>>),
     formatter |-> Fmt(<<Str(<<"T", "Y", "P", "E", ":", "-", " ">>), StrippedGroupOf(1)>>)],
    \* r"TYPE OF STRAND\s*[:-]?\s*([^;]+)"
    [pattern |-> Cat(<<Lit(<<"T", "Y", "P", "E", " ", "O", "F", " ", "S", "T", "R", "A", "N",
        "D">>), RepInf(Space, 0), Rep(Cls({":", "-"}, {}), 0, 1), RepInf(Space, 0), Grp(1,
        RepInf(NotCls({";"}, {}), 1))>>),
     formatter |-> Fmt(<<Str(<<"T", "Y", "P", "E", " ", "O", "F", " ", "S", "T", "R", "A", "N",
        "D", " ", ":", "-", " ">>), StrippedGroupOf(1)>>)],
    \* r"Corrosion resistant steel"
    [pattern |-> Lit(<<"C", "o", "r", "r", "o", "s", "i", "o", "n", " ", "r", "e", "s", "i",
        "s", "t", "a", "n", "t", " ", "s", "t", "e", "e", "l">>),
     formatter |-> Fmt(<<Str(<<"T", "Y", "P", "E", ":", "-", " ", "C", "o", "r", "r", "o", "s",
        "i", "o", "n", " ", "r", "e", "s", "i", "s", "t", "a", "n", "t", " ", "s", "t", "e",
        "e", "l", " ", "(", "C", "R", "S", ")">>)>>)],
    \* r"Thermo mechanically treated"
    [pattern |-> Lit(<<"T", "h", "e", "r", "m", "o", " ", "m", "e", "c", "h", "a", "n", "i",
        "c", "a", "l", "l", "y", " ", "t", "r", "e", "a", "t", "e", "d">>),
     formatter |-> Fmt(<<Str(<<"T", "Y", "P", "E", " ", ":", "-", " ", "T", "h", "e", "r", "m",
        "o", " ", "m", "e", "c", "h", "a", "n", "i", "c", "a", "l", "l", "y", " ", "t", "r",
        "e", "a", "t", "e", "d", " ", "(", "T", "M", "T", ")">>)>>)],
    \* r"TMT.*CRS"
    [pattern |-> Cat(<<Lit(<<"T", "M", "T">>), RepInf(AnyChar, 0), Lit(<<"C", "R", "S">>)>>),
     formatter |-> Fmt(<<Str(<<"T", "M", "T", " ", "+", " ", "C", "R", "S">>)>>)],
    \* r"RIB BAR.*CRS"
    [pattern |-> Cat(<<Lit(<<"R", "I", "B", " ", "B", "A", "R">>), RepInf(AnyChar, 0),
        Lit(<<"C", "R", "S">>)>>),
     formatter |-> Fmt(<<Str(<<"R", "I", "B", " ", "B", "A", "R", " ", "+", " ", "C", "R",
        "S">>)>>)]
    >>

\* FIELD_RULES["Diameter"]
DiameterRules == <<
    \* r"NOMINAL DIAMETER OF STRAND\s*[:-]?\s*(\d+(?:\.\d+)?)\s*MM"
    [pattern |-> Cat(<<Lit(<<"N", "O", "M", "I", "N", "A", "L", " ", "D", "I", "A", "M", "E",
        "T", "E", "R", " ", "O", "F", " ", "S", "T", "R", "A", "N", "D">>), RepInf(Space, 0),
        Rep(Cls({":", "-"}, {}), 0, 1), RepInf(Space, 0), Grp(1, Cat(<<RepInf(Digit, 1),
        Opt(Cat(<<Lit(<<".">>), RepInf(Digit, 1)>>))>>)), RepInf(Space, 0), Lit(<<"M",
        "M">>)>>),
     formatter |-> Fmt(<<Str(<<"N", "O", "M", "I", "N", "A", "L", " ", "D", "I", "A", "M", "E",
        "T", "E", "R", " ", ":", "-", " ">>), GroupOf(1), Str(<<" ", "m", "m">>)>>)],
    \* r"DIAMETER\s*[:-]?\s*(\d+(?:\.\d+)?)\s*MM"
    [pattern |-> Cat(<<Lit(<<"D", "I", "A", "M", "E", "T", "E", "R">>), RepInf(Space, 0),
        Rep(Cls({":", "-"}, {}), 0, 1), RepInf(Space, 0), Grp(1, Cat(<<RepInf(Digit, 1),
        Opt(Cat(<<Lit(<<".">>), RepInf(Digit, 1)>>))>>)), RepInf(Space, 0), Lit(<<"M",
        "M">>)>>),
     formatter |-> Fmt(<<Str(<<"D", "I", "A", "M", "E", "T", "E", "R", " ", ":", "-", " ">>),
        GroupOf(1), Str(<<" ", "m", "m">>)>>)],
    \* r"(\d+(?:\.\d+)?)\s*MM"
    [pattern |-> Cat(<<Grp(1, Cat(<<RepInf(Digit, 1), Opt(Cat(<<Lit(<<".">>), RepInf(Digit,
        1)>>))>>)), RepInf(Space, 0), Lit(<<"M", "M">>)>>),
     formatter |-> Fmt(<<Str(<<"I", "n", "l", "i", "n", "e", ":", " ", "\"">>), GroupOf(1),
        Str(<<" ", "m", "m", "\"">>)>>)]
    >>

\* FIELD_RULES["Length"]
LengthRules == <<
    \* r"Length:\s*(\d+\.\d+)\s*M"
    [pattern |-> Cat(<<Lit(<<"L", "e", "n", "g", "t", "h", ":">>), RepInf(Space, 0), Grp(1,
        Cat(<<RepInf(Digit, 1), Lit(<<".">>), RepInf(Digit, 1)>>)), RepInf(Space, 0),
        Lit(<<"M">>)>>),
     formatter |-> Fmt(<<Str(<<"c", "l", "e", "a", "r", "l", "y", " ", "\"">>), GroupOf(1),
        Str(<<" ", "m", "\"">>)>>)],
    \* r"(\d+)-\1-\1.*Length:\s*(\d+\.\d+)\s*M"
    [pattern |-> Cat(<<Grp(1, RepInf(Digit, 1)), Lit(<<"-">>), Ref(1), Lit(<<"-">>), Ref(1),
        RepInf(AnyChar, 0), Lit(<<"L", "e", "n", "g", "t", "h", ":">>), RepInf(Space, 0), Grp(2,
        Cat(<<RepInf(Digit, 1), Lit(<<".">>), RepInf(Digit, 1)>>)), RepInf(Space, 0),
        Lit(<<"M">>)>>),
     formatter |-> Fmt(<<Str(<<"R", "e", "p", "e", "a", "t", "e", "d", " ", "a", "s", " ",
        "\"">>), GroupOf(1), Str(<<"\"", ",", " ", "c", "l", "e", "a", "r", "l", "y", " ",
        "\"">>), GroupOf(2), Str(<<" ", "m", "\"">>)>>)],
    \* r"(\d+)-\1-\1"
    [pattern |-> Cat(<<Grp(1, RepInf(Digit, 1)), Lit(<<"-">>), Ref(1), Lit(<<"-">>), Ref(1)>>),
     formatter |-> Fmt(<<Str(<<"R", "e", "p", "e", "a", "t", "e", "d", " ", "a", "s", " ",
        "\"">>), GroupOf(1), Str(<<"\"", ",", " ", "c", "l", "e", "a", "r", "l", "y", " ",
        "\"">>), GroupOf(1), Str(<<".", "0", "0", "0", " ", "m", "\"">>)>>)],
    \* r"FORM.*Standard length"
    [pattern |-> Cat(<<Lit(<<"F", "O", "R", "M">>), RepInf(AnyChar, 0), Lit(<<"S", "t", "a",
        "n", "d", "a", "r", "d", " ", "l", "e", "n", "g", "t", "h">>)>>),
     formatter |-> Fmt(<<Str(<<"F", "O", "R", "M", ":", "-", " ", "S", "t", "r", "a", "i", "g",
        "h", "t", " ", "b", "a", "r", "s", " ", "(", "s", "t", "a", "n", "d", "a", "r", "d",
        " ", "l", "e", "n", "g", "t", "h", ")">>)>>)],
    \* r"FORM.*Specific length"
    [pattern |-> Cat(<<Lit(<<"F", "O", "R", "M">>), RepInf(AnyChar, 0), Lit(<<"S", "p", "e",
        "c", "i", "f", "i", "c", " ", "l", "e", "n", "g", "t", "h">>)>>),
     formatter |-> Fmt(<<Str(<<"F", "O", "R", "M", " ", ":", "-", " ", "S", "t", "r", "a", "i",
        "g", "h", "t", " ", "b", "a", "r", "s", " ", "(", "s", "p", "e", "c", "i", "f", "i",
        "c", " ", "l", "e", "n", "g", "t", "h", ")">>)>>)]
    >>

\* FIELD_RULES["Standard"]
StandardRules == <<
    \* r"STANDARD\s*[:-]?\s*([^;]+)"
    [pattern |-> Cat(<<Lit(<<"S", "T", "A", "N", "D", "A", "R", "D">>), RepInf(Space, 0),
        Rep(Cls({":", "-"}, {}), 0, 1), RepInf(Space, 0), Grp(1, RepInf(NotCls({";"}, {}),
        1))>>),
     formatter |-> FmtIfIn(<<"S", "T", "A", "N", "D", "A", "R", "D", " ", ":", "-">>,
        <<Str(<<"S", "T", "A", "N", "D", "A", "R", "D", " ", ":", "-", " ">>),
        StrippedGroupOf(1)>>, <<Str(<<"S", "T", "A", "N", "D", "A", "R", "D", ":", "-", " ">>),
        StrippedGroupOf(1)>>)],
    \* r"IS 1786"
    [pattern |-> Lit(<<"I", "S", " ", "1", "7", "8", "6">>),
     formatter |-> Fmt(<<Str(<<"S", "T", "A", "N", "D", "A", "R", "D", " ", ":", "-", " ", "I",
        "S", " ", "1", "7", "8", "6">>)>>)],
    \* r"BIS \d+_\d+"
    [pattern |-> Cat(<<Lit(<<"B", "I", "S", " ">>), RepInf(Digit, 1), Lit(<<"_">>),
        RepInf(Digit, 1)>>),
     formatter |-> Fmt(<<Str(<<"M", "e", "n", "t", "i", "o", "n", "e", "d", ":", " ", "B", "I",
        "S", " ">>), GroupOf(0)>>)]
    >>

\* FIELD_RULES["Structure"]
StructureRules == <<
    \* r";.*:-"
    [pattern |-> Cat(<<Lit(<<";">>), RepInf(AnyChar, 0), Lit(<<":", "-">>)>>),
     formatter |-> Fmt(<<Str(<<"F", "u", "l", "l", "y", " ", "s", "t", "r", "u", "c", "t", "u",
        "r", "e", "d">>)>>)],
    \* r"^OPC\d+$"
    [pattern |-> Cat(<<Bol, Lit(<<"O", "P", "C">>), RepInf(Digit, 1), Eol>>),
     formatter |-> Fmt(<<Str(<<"V", "e", "r", "y", " ", "s", "h", "o", "r", "t">>)>>)],
    \* r"^OPC\d+\s+LOOSE$"
    [pattern |-> Cat(<<Bol, Lit(<<"O", "P", "C">>), RepInf(Digit, 1), RepInf(Space, 1),
        Lit(<<"L", "O", "O", "S", "E">>), Eol>>),
     formatter |-> Fmt(<<Str(<<"S", "h", "o", "r", "t", " ", "&", " ", "i", "n", "l", "i", "n",
        "e">>)>>)],
    \* r"-"
    [pattern |-> Lit(<<"-">>),
     formatter |-> Fmt(<<Str(<<"C", "o", "d", "e", "d", " ", "i", "n", "l", "i", "n",
        "e">>)>>)],
    \* r"/"
    [pattern |-> Lit(<<"/">>),
     formatter |-> Fmt(<<Str(<<"M", "i", "x", "e", "d", " ", "i", "n", "l", "i", "n", "e", " ",
        "+", " ", "n", "a", "t", "u", "r", "a", "l", " ", "l", "a", "n", "g", "u", "a", "g",
        "e">>)>>)],
    \* r".*"
    [pattern |-> RepInf(AnyChar, 0),
     formatter |-> Fmt(<<Str(<<"U", "n", "s", "t", "r", "u", "c", "t", "u", "r", "e", "d", " ",
        "f", "r", "e", "e", " ", "t", "e", "x", "t">>)>>)]
    >>

\* FIELD_RULES["Extra Info"]
ExtraInfoRules == <<
    \* r"6C11M0007000000"
    [pattern |-> Lit(<<"6", "C", "1", "1", "M", "0", "0", "0", "7", "0", "0", "0", "0", "0",
        "0">>),
     formatter |-> Fmt(<<Str(<<"E", "n", "d", "s", " ", "w", "i", "t", "h", " ", "c", "o", "d",
        "e", ":", " ", "6", "C", "1", "1", "M", "0", "0", "0", "7", "0", "0", "0", "0", "0",
        "0">>)>>)],
    \* r"Oiled\."
    [pattern |-> Lit(<<"O", "i", "l", "e", "d", ".">>),
     formatter |-> Fmt(<<Str(<<"\"", "O", "i", "l", "e", "d", ".", "\"", " ", "s", "u", "f",
        "f", "i", "x">>)>>)],
    \* r"JVBTLCD201 P1"
    [pattern |-> Lit(<<"J", "V", "B", "T", "L", "C", "D", "2", "0", "1", " ", "P", "1">>),
     formatter |-> Fmt(<<Str(<<"C", "o", "d", "e", "s", ":", " ", "J", "V", "B", "T", "L", "C",
        "D", "2", "0", "1", ",", " ", "P", "1">>)>>)],
    \* r";"
    [pattern |-> Lit(<<";">>),
     formatter |-> Fmt(<<Str(<<"N", "o", "t", " ", "p", "r", "e", "s", "e", "n", "t">>)>>)]
    >>

FIELD_RULES == <<
    [field |-> "Full Form", rules |-> FullFormRules],
    [field |-> "Grade", rules |-> GradeRules],
    [field |-> "Form", rules |-> FormRules],
    [field |-> "Type", rules |-> TypeRules],
    [field |-> "Diameter", rules |-> DiameterRules],
    [field |-> "Length", rules |-> LengthRules],
    [field |-> "Standard", rules |-> StandardRules],
    [field |-> "Structure", rules |-> StructureRules],
    [field |-> "Extra Info", rules |-> ExtraInfoRules]
    >>

RECURSIVE Join(_, _, _)
Join(parts, i, m) ==
    IF i > Len(parts) THEN <<>>
    ELSE LET part == parts[i]
             piece == IF part.k = "str" THEN part.s
                      ELSE IF part.strip THEN Strip(Group(m, part.n))
                      ELSE Group(m, part.n)
         IN  piece \o Join(parts, i + 1, m)

\* formatter(match)
Format(formatter, m) ==
    Join(IF Contains(m.string, formatter.sub) THEN formatter.then ELSE formatter.else,
         1, m)

(***************************************************************************)
(* extract_details (iter1.py, final ig.py).                                *)
(***************************************************************************)
RECURSIVE LastMatch(_, _, _)
\* the rule loop without its break: a later matching rule overwrites the field
LastMatch(rules, text, i) ==
    IF i > Len(rules) THEN [hit |-> FALSE]
    ELSE LET match == Search(rules[i].pattern, text, TRUE)
             later == LastMatch(rules, text, i + 1)
         IN  IF later.hit THEN later
             ELSE IF match.found
                  THEN [hit |-> TRUE, rule |-> i,
                        value |-> Format(rules[i].formatter, match)]
                  ELSE [hit |-> FALSE]

RECURSIVE FirstMatch(_, _, _)
\* for pattern, formatter in rules: ... if match: ... break
FirstMatch(rules, text, i) ==
    IF i > Len(rules) THEN [hit |-> FALSE]
    ELSE LET match == Search(rules[i].pattern, text, TRUE)
         IN  IF match.found
             THEN [hit |-> TRUE, rule |-> i,
                   value |-> Format(rules[i].formatter, match)]
             ELSE FirstMatch(rules, text, i + 1)

\* the empty dict
EmptyRecord == <<>>

\* one iteration of "for field, rules in FIELD_RULES.items()"
ExtractField(text, fi, result) ==
    LET r == FirstMatch(FIELD_RULES[fi].rules, text, 1)
    IN  IF r.hit THEN (FIELD_RULES[fi].field :> r.value) @@ result ELSE result

RECURSIVE ExtractFrom(_, _, _)
ExtractFrom(text, fi, result) ==
    IF fi > Len(FIELD_RULES) THEN result
    ELSE ExtractFrom(text, fi + 1, ExtractField(text, fi, result))

extract_details(text) == ExtractFrom(text, 1, EmptyRecord)

(***************************************************************************)
(* The table report: compare_strings of final ig.py and of iter1.py.       *)
(***************************************************************************)
\* string_pairs (final ig.py): the eight sample pairs
string_pairs == <<
    \* pair 1
    <<<<"O", "P", "C", " ", "5", "3", "L", "O", "O", "S", "E", "L", "O", "O", "S", "E", " ",
      "C", "E", "M", "E", "N", "T">>,
      <<"G", "R", "A", "D", "E", " ", ":", "-", " ", "5", "3", ";", "O", "R", "D", "I", "N",
      "A", "R", "Y", " ", "P", "O", "R", "T", "L", "A", "N", "D", " ", "C", "E", "M", "E", "N",
      "T", ";", " ", " ", "F", "O", "R", "M", " ", ":", "-", " ", "B", "u", "l", "k", ";", " ",
      "-", " ", "6", "C", "1", "1", "M", "0", "0", "0", "7", "0", "0", "0", "0", "0", "0">>>>,
    \* pair 2
    <<<<"S", "_", "L", "R", "P", "C", "F", " ", "B", "I", "S", " ", "1", "4", "2", "6", "8",
      "_", "2", "0", "2", "2", " ", "G", "R", "A", "D", "E", "_", "1", "8", "6", "0", "-", "P",
      " ", "1", "5", ".", "2", "0", "m", "m", " ", "O", "i", "l", "e", "d", ".">>,
      <<"H", "T", " ", "S", "T", "E", "E", "L", " ", "S", "T", "R", "A", "N", "D", ";", " ",
      "T", "Y", "P", "E", " ", "O", "F", " ", "S", "T", "R", "A", "N", "D", " ", ":", "-", " ",
      "7", " ", "p", "l", "y", ";", " ", "1", "8", "6", "0", ";", " ", "T", "Y", "P", "E", " ",
      ":", "-", " ", "P", ";", " ", "N", "O", "M", "I", "N", "A", "L", " ", "D", "I", "A", "M",
      "E", "T", "E", "R", " ", "O", "F", " ", "S", "T", "R", "A", "N", "D", " ", ":", "-", " ",
      "1", "5", ".", "2", " ", "m", "m", ";">>>>,
    \* pair 3
    <<<<"T", "M", "T", " ", "F", "E", "_", "5", "0", "0", "D", " ", "J", "V", "B", "T", "L",
      "C", "D", "2", "0", "1", " ", "P", "1", " ", "1", "2", ".", "0", "0", "m", "m", " ", "1",
      "2", "0", "0", "0", ".", "0", "0", "m", "m", ".">>,
      <<"R", "E", "I", "N", "F", "O", "R", "C", "E", "M", "E", "N", "T", " ", "S", "T", "E",
      "E", "L", " ", "B", "A", "R", ";", " ", "T", "Y", "P", "E", " ", ":", "-", " ", "T", "h",
      "e", "r", "m", "o", " ", "m", "e", "c", "h", "a", "n", "i", "c", "a", "l", "l", "y", " ",
      "t", "r", "e", "a", "t", "e", "d", " ", "(", "T", "M", "T", ")", ";", " ", "G", "R", "A",
      "D", "E", " ", ":", "-", " ", "F", "e", " ", "5", "0", "0", "D", ";", " ", "D", "I", "A",
      "M", "E", "T", "E", "R", " ", ":", "-", " ", "1", "2", " ", "m", "m", ";", " ", "F", "O",
      "R", "M", " ", ":", "-", " ", "S", "t", "r", "a", "i", "g", "h", "t", " ", "b", "a", "r",
      "s", " ", "(", "s", "t", "a", "n", "d", "a", "r", "d", " ", "l", "e", "n", "g", "t", "h",
      ")", ";", " ", "S", "T", "A", "N", "D", "A", "R", "D", " ", ":", "-", " ", "I", "S", " ",
      "1", "7", "8", "6", ";">>>>,
    \* pair 4
    <<<<"T", "I", "S", "C", "O", "N", "-", "T", "M", "T", " ", "I", "S", " ", "1", "7", "8",
      "6", " ", "F", "E", "5", "5", "0", "D", " ", "C", "R", "S", "#", " ", "3", "2", ".", "0",
      "0", " ", "m", "m">>,
      <<"R", "E", "I", "N", "F", "O", "R", "C", "E", "M", "E", "N", "T", " ", "S", "T", "E",
      "E", "L", " ", "B", "A", "R", ";", " ", "T", "Y", "P", "E", " ", ":", "-", " ", "C", "o",
      "r", "r", "o", "s", "i", "o", "n", " ", "r", "e", "s", "i", "s", "t", "a", "n", "t", " ",
      "s", "t", "e", "e", "l", " ", "(", "C", "R", "S", ")", ";", " ", "G", "R", "A", "D", "E",
      " ", ":", "-", " ", "F", "e", " ", "5", "5", "0", "D", ";", " ", "D", "I", "A", "M", "E",
      "T", "E", "R", " ", ":", "-", " ", "3", "2", " ", "m", "m", ";", " ", "F", "O", "R", "M",
      " ", ":", "-", " ", "S", "t", "r", "a", "i", "g", "h", "t", " ", "b", "a", "r", "s", " ",
      "(", "s", "t", "a", "n", "d", "a", "r", "d", " ", "l", "e", "n", "g", "t", "h", ")", ";",
      " ", "S", "T", "A", "N", "D", "A", "R", "D", " ", ":", "-", " ", "I", "S", " ", "1", "7",
      "8", "6", ";">>>>,
    \* pair 5
    <<<<"T", "M", "T", "-", "F", "E", "_", "5", "0", "0", "D", "-", "3", "2", "m", "m", "-",
      "1", "1", ".", "0", "0", "0", "m", "t", "r", ".">>,
      <<"R", "E", "I", "N", "F", "O", "R", "C", "E", "M", "E", "N", "T", " ", "S", "T", "E",
      "E", "L", " ", "B", "A", "R", ";", " ", "T", "Y", "P", "E", " ", ":", "-", " ", "T", "h",
      "e", "r", "m", "o", " ", "m", "e", "c", "h", "a", "n", "i", "c", "a", "l", "l", "y", " ",
      "t", "r", "e", "a", "t", "e", "d", " ", "(", "T", "M", "T", ")", ";", " ", "G", "R", "A",
      "D", "E", " ", ":", "-", " ", "F", "e", " ", "5", "0", "0", "D", ";", " ", "D", "I", "A",
      "M", "E", "T", "E", "R", " ", ":", "-", " ", "3", "2", " ", "m", "m", ";", " ", "F", "O",
      "R", "M", " ", ":", "-", " ", "S", "t", "r", "a", "i", "g", "h", "t", " ", "b", "a", "r",
      "s", " ", "(", "s", "p", "e", "c", "i", "f", "i", "c", " ", "l", "e", "n", "g", "t", "h",
      ")", ";", " ", "S", "T", "A", "N", "D", "A", "R", "D", " ", ":", "-", " ", "I", "S", " ",
      "1", "7", "8", "6", ";">>>>,
    \* pair 6
    <<<<"R", "I", "B", " ", "B", "A", "R", " ", "1", "6", ".", "0", "0", " ", "M", "M", " ",
      "D", "I", "A", " ", "L", "E", "N", " ", "1", "2", "-", "1", "2", "-", "1", "2", " ", " ",
      " ", "F", "E", "5", "5", "0", "D", "-", "C", "R", "S", " ", "/", " ", "L", "e", "n", "g",
      "t", "h", ":", " ", "1", "2", ".", "0", "0", "0", " ", "m">>,
      <<"R", "E", "I", "N", "F", "O", "R", "C", "E", "M", "E", "N", "T", " ", "S", "T", "E",
      "E", "L", " ", "B", "A", "R", ";", " ", "T", "Y", "P", "E", ":", "-", "C", "o", "r", "r",
      "o", "s", "i", "o", "n", " ", "r", "e", "s", "i", "s", "t", "a", "n", "t", " ", "s", "t",
      "e", "e", "l", " ", "(", "C", "R", "S", ")", ";", " ", "G", "R", "A", "D", "E", ":", "-",
      "F", "e", " ", "5", "0", "0", "D", ";", " ", "D", "I", "A", "M", "E", "T", "E", "R", ":",
      "-", "1", "6", " ", "m", "m", ";", " ", "F", "O", "R", "M", ":", "-", "S", "t", "r", "a",
      "i", "g", "h", "t", " ", "b", "a", "r", "s", " ", "(", "s", "t", "a", "n", "d", "a", "r",
      "d", " ", "l", "e", "n", "g", "t", "h", ")", ";", " ", "S", "T", "A", "N", "D", "A", "R",
      "D", ":", "-", "I", "S", " ", "1", "7", "8", "6">>>>,
    \* pair 7
    <<<<"O", "P", "C", "5", "3">>,
      <<"O", "R", "D", "I", "N", "A", "R", "Y", " ", "P", "O", "R", "T", "L", "A", "N", "D",
      " ", "C", "E", "M", "E", "N", "T", ";", " ", "G", "R", "A", "D", "E", " ", ":", "-", " ",
      "5", "3", ";", " ", "F", "O", "R", "M", " ", ":", "-", " ", "B", "u", "l", "k", ";">>>>,
    \* pair 8
    <<<<"O", "P", "C", "5", "3", " ", "L", "O", "O", "S", "E">>,
      <<"O", "R", "D", "I", "N", "A", "R", "Y", " ", "P", "O", "R", "T", "L", "A", "N", "D",
      " ", "C", "E", "M", "E", "N", "T", ";", " ", "G", "R", "A", "D", "E", " ", ":", "-", " ",
      "5", "3", ";", " ", "F", "O", "R", "M", " ", ":", "-", " ", "B", "u", "l", "k", ";">>>>
    >>

\* ASPECT_ORDER (final ig.py)
ASPECT_ORDER ==
       (1 :> <<"Full Form", "Grade", "Form", "Structure", "Extra Info">>)
    @@ (2 :> <<"Full Form", "Grade", "Diameter", "Extra Info", "Standard", "Type", "Structure">>)
    @@ (3 :> <<"Type", "Grade", "Diameter", "Length", "Extra Info", "Standard", "Structure">>)
    @@ (4 :> <<"Brand", "Type", "Grade", "Diameter", "Standard", "Structure">>)
    @@ (5 :> <<"Type", "Grade", "Diameter", "Length", "Standard", "Structure">>)
    @@ (6 :> <<"Type", "Grade", "Diameter", "Length", "Standard", "Structure">>)
    @@ (7 :> <<"Full Form", "Grade", "Form", "Structure">>)
    @@ (8 :> <<"Full Form", "Grade", "Form", "Structure">>)


\* GENERIC_ASPECT_ORDER (iter1.py)
GENERIC_ASPECT_ORDER ==
    <<"Type", "Full Form", "Grade", "Diameter", "Length", "Form", "Standard",
      "Structure", "Extra Info">>

\* "Not mentioned"
NotMentioned == <<"N", "o", "t", " ", "m", "e", "n", "t", "i", "o", "n", "e", "d">>

\* d.get(aspect, "Not mentioned")
GetOr(d, aspect, default) == IF aspect \in DOMAIN d THEN d[aspect] ELSE default

\* final ig.py: ASPECT_ORDER.get(pair_num, [])
SelectByPair(pn) == IF pn \in DOMAIN ASPECT_ORDER THEN ASPECT_ORDER[pn] ELSE <<>>

\* iter1.py: aspect_order if aspect_order is not None else GENERIC_ASPECT_ORDER
SelectOrDefault(aspect_order) ==
    IF aspect_order # None THEN aspect_order ELSE GENERIC_ASPECT_ORDER

\* the row loop without its "continue": a row for every aspect of the order
AddRowAlways(table, aspect, rec1, rec2) ==
    Append(table, <<aspect, GetOr(rec1, aspect, <<"N", "o", "t", " ", "m", "e", "n", "t", "i", "o", "n", "e", "d">>),
                    GetOr(rec2, aspect, <<"N", "o", "t", " ", "m", "e", "n", "t", "i", "o", "n", "e", "d">>)>>)

\* one iteration of "for aspect in aspects": the table after it
AddRow(table, aspect, rec1, rec2) ==
    LET v1 == GetOr(rec1, aspect, NotMentioned)
        v2 == GetOr(rec2, aspect, NotMentioned)
    IN  IF v1 = NotMentioned /\ v2 = NotMentioned THEN table
        ELSE Append(table, <<aspect, v1, v2>>)

RECURSIVE TableFrom(_, _, _, _, _)
TableFrom(order, i, rec1, rec2, table) ==
    IF i > Len(order) THEN table
    ELSE TableFrom(order, i + 1, rec1, rec2, AddRow(table, order[i], rec1, rec2))

\* the rows compare_strings adds to its table
TableRows(order, text1, text2) ==
    TableFrom(order, 1, extract_details(text1), extract_details(text2), <<>>)

(***************************************************************************)
(* Inputs.  Descriptions are the sample strings of final ig.py and every   *)
(* concatenation of at most MaxWords words of a small vocabulary of the    *)
(* terms the rules look for.                                               *)
(***************************************************************************)
MaxWords == 2

MaxReportWords == 2

MaxPairNum == 9

Vocabulary == <<
    <<"O", "P", "C", " ">>,
    <<"5", "3">>,
    <<"L", "O", "O", "S", "E">>,
    <<"G", "R", "A", "D", "E", " ">>,
    <<"F", "O", "R", "M", " ", ":", "-", " ">>,
    <<"B", "u", "l", "k", ";">>,
    <<"T", "M", "T", "-">>,
    <<"C", "R", "S">>
    >>

RECURSIVE Phrases(_, _)
\* the concatenations of at most n of the words
Phrases(words, n) ==
    IF n = 0 THEN {<<>>}
    ELSE LET shorter == Phrases(words, n - 1)
         IN  shorter \cup {t \o words[w] : t \in shorter, w \in DOMAIN words}

SampleTexts ==
    {string_pairs[i][1] : i \in DOMAIN string_pairs}
        \cup {string_pairs[i][2] : i \in DOMAIN string_pairs}

Texts == SampleTexts \cup Phrases(Vocabulary, MaxWords)

ReportTexts == Phrases(SubSeq(Vocabulary, 1, 3), MaxReportWords)

ReportPairs ==
    {<<string_pairs[i][1], string_pairs[i][2]>> : i \in DOMAIN string_pairs}
        \cup (ReportTexts \X ReportTexts)

\* the aspect_order arguments given to iter1.py's compare_strings
OrderArguments == {None, GENERIC_ASPECT_ORDER, <<"Grade", "Brand", "Form">>}

(***************************************************************************)
(* extract_details on one text, a field of FIELD_RULES at a time.          *)
(***************************************************************************)
IdleTierB ==
    /\ s1 = Unused /\ s2 = Unused
    /\ val1 = Unused /\ val2 = Unused /\ ratio = Unused /\ sem = Unused
    /\ status = Unused /\ oracleCalls = 0 /\ llmCalls = 0
    /\ response = Unused /\ llmOut = Unused

IdleMain == round = 0 /\ exitTyped = FALSE

tierBVars ==
    <<s1, s2, val1, val2, ratio, sem, status, oracleCalls, llmCalls, response, llmOut>>

mainVars == <<round, exitTyped>>

InitExtract ==
    /\ prog = "extract_details"
    /\ pc = "fields"
    /\ in1 \in Texts
    /\ in2 = Unused /\ pair_num = Unused /\ aspects = Unused /\ d2 = Unused
    /\ d1 = EmptyRecord
    /\ ai = 1
    /\ rows = <<>> /\ out = <<>>
    /\ IdleTierB /\ IdleMain

\* the body of "for field, rules in FIELD_RULES.items()" for the next field
ExtractNextField ==
    /\ prog = "extract_details" /\ pc = "fields"
    /\ ai <= Len(FIELD_RULES)
    /\ d1' = ExtractField(in1, ai, d1)
    /\ ai' = ai + 1
    /\ UNCHANGED <<prog, pc, in1, in2, pair_num, aspects, d2, rows, out>>
    /\ UNCHANGED tierBVars /\ UNCHANGED mainVars

\* return result
ExtractReturn ==
    /\ prog = "extract_details" /\ pc = "fields"
    /\ ai > Len(FIELD_RULES)
    /\ pc' = "done"
    /\ UNCHANGED <<prog, in1, in2, pair_num, aspects, d1, d2, ai, rows, out>>
    /\ UNCHANGED tierBVars /\ UNCHANGED mainVars

NextExtract == ExtractNextField \/ ExtractReturn

SpecExtract == InitExtract /\ [][NextExtract]_vars

\* d[field] is there and is v
HasValue(d, field, v) == field \in DOMAIN d /\ d[field] = v

\* the indices of the rules of field number fi whose pattern matches text
MatchingRules(fi, text) ==
    {i \in DOMAIN FIELD_RULES[fi].rules :
        Search(FIELD_RULES[fi].rules[i].pattern, text, TRUE).found}

\* what rule i of field number fi formats text to
RuleOutput(fi, i, text) ==
    Format(FIELD_RULES[fi].rules[i].formatter,
           Search(FIELD_RULES[fi].rules[i].pattern, text, TRUE))

\* C1: first match wins.  For every field extract_details has been through,
\* if some rule of the field matches the text, the record holds the output of
\* the formatter of the lowest matching rule of the table; if none matches,
\* the record has no entry for the field.  Fields not yet reached have none.
C1_FirstMatchWins ==
    prog = "extract_details" =>
        \A fi \in DOMAIN FIELD_RULES :
            IF fi >= ai THEN FIELD_RULES[fi].field \notin DOMAIN d1
            ELSE LET matching == MatchingRules(fi, in1)
                 IN  IF matching = {} THEN FIELD_RULES[fi].field \notin DOMAIN d1
                     ELSE HasValue(d1, FIELD_RULES[fi].field,
                                   RuleOutput(fi, SetMin(matching), in1))

\* a finished extraction in which a field has two matching rules whose
\* outputs differ, and another field has no matching rule
C1_Witness ==
    /\ prog = "extract_details" /\ pc = "done"
    /\ \E fi \in DOMAIN FIELD_RULES :
          LET matching == MatchingRules(fi, in1)
          IN  /\ Cardinality(matching) >= 2
              /\ RuleOutput(fi, SetMin(matching), in1)
                    # RuleOutput(fi, SetMax(matching), in1)
    /\ \E fi \in DOMAIN FIELD_RULES : MatchingRules(fi, in1) = {}

\* C9: end-to-end scenario 1.  extract_details gives, for "OPC53", Full Form
\* 'OPC (abbreviated)', Grade '53 (implied)' and no Form; and for "ORDINARY
\* PORTLAND CEMENT; GRADE :- 53; FORM :- Bulk;", Full Form 'ORDINARY PORTLAND
\* CEMENT (full form)', Grade 'GRADE :- 53' and Form 'FORM :- Bulk'.
C9_Scenario1 ==
    (prog = "extract_details" /\ pc = "done") =>
        /\ in1 = string_pairs[7][1] =>
              /\ HasValue(d1, "Full Form", <<"O", "P", "C", " ", "(", "a", "b", "b", "r", "e", "v", "i", "a", "t", "e", "d", ")">>)
              /\ HasValue(d1, "Grade", <<"5", "3", " ", "(", "i", "m", "p", "l", "i", "e", "d", ")">>)
              /\ "Form" \notin DOMAIN d1
        /\ in1 = string_pairs[7][2] =>
              /\ HasValue(d1, "Full Form",
                          <<"O", "R", "D", "I", "N", "A", "R", "Y", " ", "P", "O", "R"
                          , "T", "L", "A", "N", "D", " ", "C", "E", "M", "E", "N", "T"
                          , " ", "(", "f", "u", "l", "l", " ", "f", "o", "r", "m", ")">>)
              /\ HasValue(d1, "Grade", <<"G", "R", "A", "D", "E", " ", ":", "-", " ", "5", "3">>)
              /\ HasValue(d1, "Form", <<"F", "O", "R", "M", " ", ":", "-", " ", "B", "u", "l", "k">>)

(***************************************************************************)
(* compare_strings of final ig.py (prog = "final") and of iter1.py         *)
(* (prog = "iter1"): two extractions, the selection of the order, the row  *)
(* loop, the print.  The order argument is drawn where the code first      *)
(* reads it.                                                               *)
(***************************************************************************)
InitReport ==
    /\ prog \in {"final", "iter1"}
    /\ pc = "extract1"
    /\ \E pair \in ReportPairs : in1 = pair[1] /\ in2 = pair[2]
    /\ pair_num = Unused /\ aspects = Unused
    /\ d1 = EmptyRecord /\ d2 = EmptyRecord
    /\ ai = 1
    /\ rows = <<>> /\ out = <<>>
    /\ IdleTierB /\ IdleMain

\* d1 = extract_details(s1)
ReportExtractFirst ==
    /\ prog \in {"final", "iter1"} /\ pc = "extract1"
    /\ d1' = extract_details(in1)
    /\ pc' = "extract2"
    /\ UNCHANGED <<prog, in1, in2, pair_num, aspects, d2, ai, rows, out>>
    /\ UNCHANGED tierBVars /\ UNCHANGED mainVars

\* d2 = extract_details(s2)
ReportExtractSecond ==
    /\ prog \in {"final", "iter1"} /\ pc = "extract2"
    /\ d2' = extract_details(in2)
    /\ pc' = "select"
    /\ UNCHANGED <<prog, in1, in2, pair_num, aspects, d1, ai, rows, out>>
    /\ UNCHANGED tierBVars /\ UNCHANGED mainVars

\* final ig.py: aspects = ASPECT_ORDER.get(pair_num, []), and the header
SelectAspectsByPair ==
    /\ prog = "final" /\ pc = "select"
    /\ \E pn \in 1..MaxPairNum :
          /\ pair_num' = pn
          /\ aspects' = SelectByPair(pn)
    /\ out' = Append(out, "header")
    /\ pc' = "rows"
    /\ UNCHANGED <<prog, in1, in2, d1, d2, ai, rows>>
    /\ UNCHANGED tierBVars /\ UNCHANGED mainVars

\* iter1.py: aspects_to_display = aspect_order or the generic order, and the header
SelectAspectsOrDefault ==
    /\ prog = "iter1" /\ pc = "select"
    /\ \E arg \in OrderArguments :
          /\ pair_num' = arg
          /\ aspects' = SelectOrDefault(arg)
    /\ out' = Append(out, "header")
    /\ pc' = "rows"
    /\ UNCHANGED <<prog, in1, in2, d1, d2, ai, rows>>
    /\ UNCHANGED tierBVars /\ UNCHANGED mainVars

\* the body of "for aspect in aspects" for the next aspect
ReportRow ==
    /\ prog \in {"final", "iter1"} /\ pc = "rows"
    /\ ai <= Len(aspects)
    /\ rows' = AddRow(rows, aspects[ai], d1, d2)
    /\ ai' = ai + 1
    /\ UNCHANGED <<prog, pc, in1, in2, pair_num, aspects, d1, d2, out>>
    /\ UNCHANGED tierBVars /\ UNCHANGED mainVars

\* print(table)
ReportPrint ==
    /\ prog \in {"final", "iter1"} /\ pc = "rows"
    /\ ai > Len(aspects)
    /\ out' = Append(out, "table")
    /\ pc' = "done"
    /\ UNCHANGED <<prog, in1, in2, pair_num, aspects, d1, d2, ai, rows>>
    /\ UNCHANGED tierBVars /\ UNCHANGED mainVars

NextReport ==
    \/ ReportExtractFirst
    \/ ReportExtractSecond
    \/ SelectAspectsByPair
    \/ SelectAspectsOrDefault
    \/ ReportRow
    \/ ReportPrint

SpecReport == InitReport /\ [][NextReport]_vars

\* the positions, among the first n of the order, of the fields that at
\* least one of the two records has a value for
ShownUpTo(n) ==
    {i \in 1..n : i <= Len(aspects) /\ aspects[i] \in DOMAIN d1 \cup DOMAIN d2}

\* C7: the rows of the three-column table are exactly the fields of the
\* selected order that at least one record has a value for, in the order's
\* order, an absent side shown as "Not mentioned"; a field absent from both
\* records has no row, nor has an extracted field that is not in the order.
C7_TableRows ==
    (prog \in {"final", "iter1"} /\ pc \in {"rows", "done"}) =>
        LET shown == ShownUpTo(ai - 1)
        IN  /\ Len(rows) = Cardinality(shown)
            /\ \A i \in shown :
                  LET k == Cardinality({j \in shown : j <= i})
                  IN  rows[k] = <<aspects[i],
                                  IF aspects[i] \in DOMAIN d1
                                  THEN d1[aspects[i]] ELSE NotMentioned,
                                  IF aspects[i] \in DOMAIN d2
                                  THEN d2[aspects[i]] ELSE NotMentioned>>

\* a printed table whose order holds a field absent from both records, a
\* field only one record has, and lacks a field that was extracted
C7_Witness ==
    /\ prog \in {"final", "iter1"} /\ pc = "done"
    /\ \E i \in DOMAIN aspects : aspects[i] \notin DOMAIN d1 \cup DOMAIN d2
    /\ \E i \in DOMAIN aspects :
          aspects[i] \in DOMAIN d1 /\ aspects[i] \notin DOMAIN d2
    /\ \E f \in DOMAIN d1 : \A i \in DOMAIN aspects : aspects[i] # f
    /\ Len(rows) >= 2

(***************************************************************************)
(* main() of iter1.py: the interactive loop.                               *)
(***************************************************************************)
MaxRounds == 2

\* what the user types at a prompt
TypedInputs == {
    <<"e", "x", "i", "t">>,
    <<" ", " ", "E", "x", "i", "t", " ">>,
    <<"E", "X", "I", "T", "\t">>,
    <<"e", "x", "i", "t", "s">>,
    <<"O", "P", "C", "5", "3">>,
    <<" ", "G", "R", "A", "D", "E", " ", "5", "3", " ">>
    }

\* the comparison of an answer without .strip() and .lower()
IsExitExactly(s) == s = <<"e", "x", "i", "t">>

\* s1.lower() == 'exit'
IsExit(s) == Lower(s) = <<"e", "x", "i", "t">>

\* input(...).strip()
ReadStripped(typed) == Strip(typed)

InitMain ==
    /\ prog = "main"
    /\ pc = "prompt1"
    /\ round = 1
    /\ exitTyped = FALSE
    /\ out = <<"welcome">>
    /\ in1 = Unused /\ in2 = Unused /\ s1 = Unused /\ s2 = Unused
    /\ pair_num = Unused /\ aspects = Unused
    /\ d1 = EmptyRecord /\ d2 = EmptyRecord /\ ai = 1 /\ rows = <<>>
    /\ val1 = Unused /\ val2 = Unused /\ ratio = Unused /\ sem = Unused
    /\ status = Unused /\ oracleCalls = 0 /\ llmCalls = 0
    /\ response = Unused /\ llmOut = Unused

mainIdle == <<prog, pair_num, aspects, d1, d2, ai, val1, val2, ratio, sem, status,
              oracleCalls, llmCalls, response, llmOut>>

\* the round's header; s1 = input("Enter String 1: ").strip(); break on exit
MainPromptFirst ==
    /\ prog = "main" /\ pc = "prompt1"
    /\ round <= MaxRounds
    /\ \E typed \in TypedInputs :
          /\ in1' = typed
          /\ s1' = ReadStripped(typed)
          /\ IF IsExit(ReadStripped(typed))
             THEN pc' = "farewell" /\ exitTyped' = TRUE
             ELSE pc' = "prompt2" /\ exitTyped' = FALSE
    /\ out' = out \o <<"header", "prompt1">>
    /\ UNCHANGED <<in2, s2, rows, round>>
    /\ UNCHANGED mainIdle

\* s2 = input("Enter String 2: ").strip(); break on exit
MainPromptSecond ==
    /\ prog = "main" /\ pc = "prompt2"
    /\ \E typed \in TypedInputs :
          /\ in2' = typed
          /\ s2' = ReadStripped(typed)
          /\ IF IsExit(ReadStripped(typed))
             THEN pc' = "farewell" /\ exitTyped' = TRUE
             ELSE pc' = "compare" /\ exitTyped' = FALSE
    /\ out' = Append(out, "prompt2")
    /\ UNCHANGED <<in1, s1, rows, round>>
    /\ UNCHANGED mainIdle

\* compare_strings(s1, s2, pair_num=comparison_count,
\*                 aspect_order=GENERIC_ASPECT_ORDER); comparison_count += 1
MainCompare ==
    /\ prog = "main" /\ pc = "compare"
    /\ rows' = TableRows(SelectOrDefault(GENERIC_ASPECT_ORDER), s1, s2)
    /\ out' = Append(out, "report")
    /\ round' = round + 1
    /\ pc' = "prompt1"
    /\ UNCHANGED <<in1, in2, s1, s2, exitTyped>>
    /\ UNCHANGED mainIdle

\* print("Thank you for using the tool. Goodbye!")
MainFarewell ==
    /\ prog = "main" /\ pc = "farewell"
    /\ out' = Append(out, "farewell")
    /\ pc' = "done"
    /\ UNCHANGED <<in1, in2, s1, s2, rows, round, exitTyped>>
    /\ UNCHANGED mainIdle

NextMain == MainPromptFirst \/ MainPromptSecond \/ MainCompare \/ MainFarewell

SpecMain == InitMain /\ [][NextMain]_vars

\* typed is "exit" in any letter case between whitespace
TypedExit(typed) ==
    /\ typed # Unused
    /\ \E i \in 1..Len(typed) :
          /\ i + 3 <= Len(typed)
          /\ typed[i] \in {"e", "E"} /\ typed[i + 1] \in {"x", "X"}
          /\ typed[i + 2] \in {"i", "I"} /\ typed[i + 3] \in {"t", "T"}
          /\ \A j \in 1..Len(typed) : (j < i \/ j > i + 3) => typed[j] \in SpaceChars

RECURSIVE Times(_, _)
Times(block, n) == IF n = 0 THEN <<>> ELSE block \o Times(block, n - 1)

\* what has been printed when round - 1 rounds are complete and the running
\* one stands at pc
ExpectedOutput ==
    <<"welcome">> \o Times(<<"header", "prompt1", "prompt2", "report">>, round - 1)
        \o (CASE pc = "prompt1" -> <<>>
              [] pc = "prompt2" -> <<"header", "prompt1">>
              [] pc = "compare" -> <<"header", "prompt1", "prompt2">>
              [] pc = "farewell" ->
                    IF TypedExit(in1) THEN <<"header", "prompt1">>
                    ELSE <<"header", "prompt1", "prompt2">>
              [] pc = "done" ->
                    IF TypedExit(in1) THEN <<"header", "prompt1", "farewell">>
                    ELSE <<"header", "prompt1", "prompt2", "farewell">>)

\* the session is over exactly when the last answer to a prompt was "exit"
EndsOnExit ==
    /\ exitTyped = (TypedExit(in1) \/ (pc # "prompt2" /\ TypedExit(in2)))
    /\ exitTyped = (pc \in {"farewell", "done"})

\* after "exit": no comparison, no prompt, nothing printed but the farewell
AfterExit ==
    exitTyped =>
        /\ exitTyped'
        /\ rows' = rows /\ round' = round
        /\ in1' = in1 /\ in2' = in2
        /\ out' = out \/ (out' = Append(out, "farewell") /\ pc = "farewell")

\* C10: in main(), once "exit" (any letter case, surrounding whitespace
\* ignored) is entered at either prompt, no comparison runs for that or any
\* later round, no further prompt is issued and only the farewell line is
\* printed; every round in which neither answer is "exit" runs exactly one
\* comparison before the next prompt.
C10_ExitEndsSession ==
    /\ [](prog = "main" => (EndsOnExit /\ out = ExpectedOutput))
    /\ [][prog = "main" => AfterExit]_vars

\* a session that ran one comparison and then ended on an "exit" typed in
\* another case and between spaces at the second prompt
C10_Witness ==
    /\ prog = "main" /\ pc = "done" /\ round = 2
    /\ ~TypedExit(in1) /\ TypedExit(in2) /\ ~IsExitExactly(in2)
    /\ Len(rows) > 0

(***************************************************************************)
(* The graded comparator of main.py: semantic_match and compare_field.     *)
(* fuzz.ratio and the embedding model are oracles: fz is the ratio         *)
(* (0..100) fuzz.ratio returns for the pair, answer is what the model      *)
(* does, either a failure or a cosine similarity, in hundredths.           *)
(***************************************************************************)
FuzzyThreshold == 85

SemanticThreshold == 85

\* bool(v): None and "" are false
Truthy(v) == v # None /\ v # <<>>

Raises == [raises |-> TRUE]

Similarity(n) == [raises |-> FALSE, similarity |-> n]

\* semantic_match without its "if not val1 or not val2" guard
semantic_match_unguarded(v1, v2, answer) ==
    IF answer.raises THEN [raised |-> TRUE, calls |-> 1]
    ELSE [raised |-> FALSE, calls |-> 1,
          value |-> answer.similarity > SemanticThreshold]

\* semantic_match(val1, val2): the value returned or the exception raised,
\* and whether the model was invoked
semantic_match(v1, v2, answer) ==
    IF ~Truthy(v1) \/ ~Truthy(v2) THEN [raised |-> FALSE, calls |-> 0, value |-> FALSE]
    ELSE IF answer.raises THEN [raised |-> TRUE, calls |-> 1]
    ELSE [raised |-> FALSE, calls |-> 1,
          value |-> answer.similarity > SemanticThreshold]

\* compare_field with the semantic tier tried before the fuzzy one
compare_field_semantic_first(v1, v2, fz, answer) ==
    IF ~Truthy(v1) /\ ~Truthy(v2)
    THEN [raised |-> FALSE, calls |-> 0, status |-> "Not Mentioned"]
    ELSE IF v1 = v2
    THEN [raised |-> FALSE, calls |-> 0, status |-> "Exact Match"]
    ELSE LET sm == semantic_match(v1, v2, answer)
         IN  IF sm.raised THEN [raised |-> TRUE, calls |-> sm.calls]
             ELSE IF sm.value
             THEN [raised |-> FALSE, calls |-> sm.calls, status |-> "Semantic Match"]
             ELSE IF Truthy(v1) /\ Truthy(v2) /\ fz > FuzzyThreshold
             THEN [raised |-> FALSE, calls |-> sm.calls, status |-> "Fuzzy Match"]
             ELSE [raised |-> FALSE, calls |-> sm.calls, status |-> "Mismatch"]

\* compare_field(val1, val2): the status returned, or the exception that
\* leaves it, and how many times the model was invoked
compare_field(v1, v2, fz, answer) ==
    IF ~Truthy(v1) /\ ~Truthy(v2)
    THEN [raised |-> FALSE, calls |-> 0, status |-> "Not Mentioned"]
    ELSE IF v1 = v2
    THEN [raised |-> FALSE, calls |-> 0, status |-> "Exact Match"]
    ELSE IF Truthy(v1) /\ Truthy(v2) /\ fz > FuzzyThreshold
    THEN [raised |-> FALSE, calls |-> 0, status |-> "Fuzzy Match"]
    ELSE LET sm == semantic_match(v1, v2, answer)
         IN  IF sm.raised THEN [raised |-> TRUE, calls |-> sm.calls]
             ELSE IF sm.value
             THEN [raised |-> FALSE, calls |-> sm.calls, status |-> "Semantic Match"]
             ELSE [raised |-> FALSE, calls |-> sm.calls, status |-> "Mismatch"]

\* values a field extractor returns
FieldValues == {
    None,
    <<"5", "3">>,
    <<"4", "3">>,
    <<"F", "E", "5", "0", "0", "D">>,
    <<"F", "E", "5", "0", "0">>
    }

\* ratios fuzz.ratio returns for two different strings, on both sides of the
\* threshold
Ratios == {0, FuzzyThreshold, FuzzyThreshold + 1, 99}

\* similarities on both sides of the threshold, and the model failing
ModelAnswers ==
    {Raises} \cup {Similarity(n) : n \in {0, SemanticThreshold, SemanticThreshold + 1, 100}}

\* what the two oracles can answer for a pair: equal strings have ratio 100
\* and similarity 1.0
RatiosFor(v1, v2) == IF Truthy(v1) /\ v1 = v2 THEN {100} ELSE Ratios

AnswersFor(v1, v2) ==
    IF Truthy(v1) /\ v1 = v2 THEN {Raises, Similarity(100)} ELSE ModelAnswers

InitField ==
    /\ prog = "compare_field"
    /\ pc = "call"
    /\ val1 \in FieldValues /\ val2 \in FieldValues
    /\ ratio \in RatiosFor(val1, val2)
    /\ sem \in AnswersFor(val1, val2)
    /\ status = Unused
    /\ oracleCalls = 0
    /\ in1 = Unused /\ in2 = Unused /\ s1 = Unused /\ s2 = Unused
    /\ pair_num = Unused /\ aspects = Unused
    /\ d1 = EmptyRecord /\ d2 = EmptyRecord /\ ai = 1 /\ rows = <<>>
    /\ llmCalls = 0 /\ response = Unused /\ llmOut = Unused /\ out = <<>>
    /\ IdleMain

fieldIdle == <<prog, in1, in2, s1, s2, pair_num, aspects, d1, d2, ai, rows, val1,
               val2, ratio, sem, llmCalls, response, llmOut, out, round, exitTyped>>

\* compare_field(val1, val2) returns a status
FieldReturns ==
    /\ prog = "compare_field" /\ pc = "call"
    /\ LET r == compare_field(val1, val2, ratio, sem)
       IN  /\ ~r.raised
           /\ status' = r.status
           /\ oracleCalls' = oracleCalls + r.calls
    /\ pc' = "returned"
    /\ UNCHANGED fieldIdle

\* an exception raised by the model leaves compare_field
FieldRaises ==
    /\ prog = "compare_field" /\ pc = "call"
    /\ LET r == compare_field(val1, val2, ratio, sem)
       IN  /\ r.raised
           /\ oracleCalls' = oracleCalls + r.calls
    /\ pc' = "raised"
    /\ UNCHANGED status
    /\ UNCHANGED fieldIdle

NextField == FieldReturns \/ FieldRaises

SpecField == InitField /\ [][NextField]_vars

BothPresent == val1 # None /\ val2 # None

BothAbsent == val1 = None /\ val2 = None

\* the classification in the order of priority
Classified ==
    CASE BothAbsent -> "Not Mentioned"
      [] ~BothAbsent /\ BothPresent /\ val1 = val2 -> "Exact Match"
      [] BothPresent /\ val1 # val2 /\ ratio > 85 -> "Fuzzy Match"
      [] BothPresent /\ val1 # val2 /\ ratio <= 85
            /\ ~sem.raises /\ sem.similarity > 85 -> "Semantic Match"
      [] OTHER -> "Mismatch"

\* C2: compare_field classifies in strict priority order, whatever the ratio
\* and the similarity are: both absent, Not Mentioned; else both present and
\* equal, Exact Match; else both present and ratio > 85, Fuzzy Match; else
\* both present and similarity > 0.85, Semantic Match; else Mismatch, which
\* covers every pair with one side present.  It returns unless the model fails.
C2_PriorityOrder ==
    prog = "compare_field" =>
        /\ pc = "returned" => status = Classified
        /\ pc = "raised" => sem.raises

\* a Fuzzy Match returned for a pair whose similarity qualifies as well
C2_Witness ==
    /\ prog = "compare_field" /\ pc = "returned"
    /\ status = "Fuzzy Match"
    /\ ~sem.raises /\ sem.similarity > 85

\* C3: in a call of compare_field the embedding model is invoked only if
\* both values are present, they differ and the fuzzy ratio is not above 85,
\* and then once.
C3_LazyOracle ==
    prog = "compare_field" =>
        /\ oracleCalls \in {0, 1}
        /\ oracleCalls = 1 => (BothPresent /\ val1 # val2 /\ ratio <= 85)

\* a returned call that invoked the model
C3_Witness ==
    /\ prog = "compare_field" /\ pc = "returned"
    /\ oracleCalls = 1 /\ status = "Semantic Match"

\* C5: when the model fails on a pair of present, unequal values whose
\* ratio is not above 85, compare_field catches the failure and returns
\* Mismatch.
C5_OracleFailureIsMismatch ==
    (/\ prog = "compare_field" /\ pc # "call"
     /\ BothPresent /\ val1 # val2 /\ ratio <= 85 /\ sem.raises)
        => (pc = "returned" /\ status = "Mismatch")

(***************************************************************************)
(* main.py: preprocessing and the six field extractors.                    *)
(***************************************************************************)
\* preprocess(text)
preprocess(text) ==
    LET lowered == Strip(Lower(text))
        spaced == Replace(lowered, <<"_">>, <<" ">>)
        colons == Replace(spaced, <<":", "-">>, <<":">>)
    IN  Replace(colons, <<";">>, <<";", " ">>)

DigitValue == [c \in DigitChars |->
    CASE c = "0" -> 0 [] c = "1" -> 1 [] c = "2" -> 2 [] c = "3" -> 3 [] c = "4" -> 4
      [] c = "5" -> 5 [] c = "6" -> 6 [] c = "7" -> 7 [] c = "8" -> 8 [] c = "9" -> 9]

DigitOf == <<"0", "1", "2", "3", "4", "5", "6", "7", "8", "9">>

RECURSIVE IntOf(_)
\* int(digits), "" counted as 0
IntOf(digits) ==
    IF digits = <<>> THEN 0
    ELSE 10 * IntOf(SubSeq(digits, 1, Len(digits) - 1)) + DigitValue[digits[Len(digits)]]

RECURSIVE Decimal(_)
\* str(n) for n >= 0
Decimal(n) ==
    IF n < 10 THEN <<DigitOf[n + 1]>> ELSE Decimal(n \div 10) \o <<DigitOf[(n % 10) + 1]>>

\* f"{float(g):.2f}" for g of the shape \d+\.?\d*: the nearest multiple of
\* 0.01.  A third decimal 5 followed by zeros only is a tie of the decimal
\* text: it is rounded to even, as Python does when the number is a binary
\* fraction (12.125).  For the other ties (2.675) Python's result depends on
\* the float nearest to the text; the descriptions below contain none.
Fixed2(g) ==
    LET dots == {i \in 1..Len(g) : g[i] = "."}
        whole == IF dots = {} THEN g ELSE SubSeq(g, 1, SetMin(dots) - 1)
        frac == IF dots = {} THEN <<>> ELSE SubSeq(g, SetMin(dots) + 1, Len(g))
        two == SubSeq(frac \o <<"0", "0">>, 1, 2)
        rest == SubSeq(frac, 3, Len(frac))
        later == {i \in 2..Len(rest) : rest[i] # "0"}
        floor == 100 * IntOf(whole) + IntOf(two)
        up == /\ rest # <<>>
              /\ \/ DigitValue[rest[1]] > 5
                 \/ DigitValue[rest[1]] = 5 /\ (later # {} \/ floor % 2 = 1)
        n == IF up THEN floor + 1 ELSE floor
    IN  Decimal(n \div 100) \o <<".", DigitOf[((n % 100) \div 10) + 1], DigitOf[(n % 10) + 1]>>

Millimetres == <<" ", "m", "m">>

GradePattern ==
    Grp(1, Alt(<<Cat(<<Lit(<<"f", "e">>), Rep(Cls({"_"}, {"s"}), 0, 1), Lit(<<"5", "0",
      "0">>), Rep(Cls({"d"}, {}), 0, 1)>>), Cat(<<Wb, Lit(<<"4", "3">>), Wb>>),
      Cat(<<Wb, Lit(<<"5", "3">>), Wb>>)>>))

DiameterPattern ==
    Cat(<<Grp(1, Cat(<<Rep(Cls({}, {"d"}), 1, 3), Rep(Cls({"."}, {}), 0, 1),
      RepInf(Cls({}, {"d"}), 0)>>)), Rep(Cls({}, {"s"}), 0, 1), Lit(<<"m", "m">>)>>)

LengthPattern ==
    Cat(<<Grp(1, Cat(<<Rep(Cls({}, {"d"}), 4, 5), Rep(Cls({"."}, {}), 0, 1),
      RepInf(Cls({}, {"d"}), 0)>>)), Rep(Cls({}, {"s"}), 0, 1), Lit(<<"m", "m">>)>>)

StandardPattern ==
    Cat(<<Lit(<<"i", "s">>), Rep(Cls({}, {"s"}), 0, 1), Rep(Cls({}, {"d"}), 4, 4)>>)

extract_grade(text) ==
    LET match == Search(GradePattern, text, FALSE)
    IN  IF match.found THEN Replace(Upper(Group(match, 1)), <<" ">>, <<>>) ELSE None

extract_diameter(text) ==
    LET match == Search(DiameterPattern, text, FALSE)
    IN  IF match.found THEN Fixed2(Group(match, 1)) \o Millimetres ELSE None

extract_material(text) ==
    IF Contains(text, <<"o", "p", "c">>) THEN <<"O", "P", "C">>
    ELSE IF Contains(text, <<"t", "m", "t">>) THEN <<"T", "M", "T">>
    ELSE IF Contains(text, <<"s", "t", "r", "a", "n", "d">>)
            \/ Contains(text, <<"l", "r", "p", "c">>)
    THEN <<"P", "C", " ", "S", "t", "r", "a", "n", "d">>
    ELSE None

extract_form(text) ==
    IF Contains(text, <<"b", "u", "l", "k">>) \/ Contains(text, <<"l", "o", "o", "s", "e">>)
    THEN <<"L", "o", "o", "s", "e">>
    ELSE IF Contains(text, <<"s", "t", "r", "a", "i", "g", "h", "t">>)
    THEN <<"S", "t", "r", "a", "i", "g", "h", "t", " ", "b", "a", "r", "s">>
    ELSE IF Contains(text, <<"b", "a", "g">>) THEN <<"B", "a", "g">>
    ELSE None

extract_length(text) ==
    LET match == Search(LengthPattern, text, FALSE)
    IN  IF match.found THEN Fixed2(Group(match, 1)) \o Millimetres ELSE None

extract_standard(text) ==
    LET match == Search(StandardPattern, text, FALSE)
    IN  IF match.found THEN Upper(Group(match, 0)) ELSE None

\* the aspects list of compare_strings
TierBAspects == <<"Grade", "Diameter", "Material", "Form", "Length", "Standard">>

\* func(text) for the i-th entry of aspects
Extract(i, text) ==
    CASE i = 1 -> extract_grade(text)
      [] i = 2 -> extract_diameter(text)
      [] i = 3 -> extract_material(text)
      [] i = 4 -> extract_form(text)
      [] i = 5 -> extract_length(text)
      [] i = 6 -> extract_standard(text)

(***************************************************************************)
(* main.py: the LLM fallback.  The endpoint is an oracle: the request      *)
(* fails in transport, or a body arrives that is JSON or not.  JSON values *)
(* are modelled with the behaviour of the Python objects json() builds.    *)
(***************************************************************************)
JNull == [j |-> "null"]

JBool(b) == [j |-> "bool", b |-> b]

JNum(n) == [j |-> "num", n |-> n]

JStr(s) == [j |-> "str", s |-> s]

JList(items) == [j |-> "list", items |-> items]

\* a dict, as its items in order: <<key, value>>
JDict(pairs) == [j |-> "dict", pairs |-> pairs]

Returned(v) == [raised |-> FALSE, value |-> v]

\* an exception with its class and str(e)
Raised(class, text) == [raised |-> TRUE, class |-> class, text |-> text]

\* type(v).__name__
TypeName(v) ==
    CASE v.j = "null" -> <<"N", "o", "n", "e", "T", "y", "p", "e">>
      [] v.j = "bool" -> <<"b", "o", "o", "l">>
      [] v.j = "num" -> <<"i", "n", "t">>
      [] v.j = "str" -> <<"s", "t", "r">>
      [] v.j = "list" -> <<"l", "i", "s", "t">>
      [] v.j = "dict" -> <<"d", "i", "c", "t">>

HasKey(v, key) == \E i \in DOMAIN v.pairs : v.pairs[i][1] = key

Lookup(v, key) == v.pairs[CHOOSE i \in DOMAIN v.pairs : v.pairs[i][1] = key][2]

Quote(s) == <<"'">> \o s \o <<"'">>

\* key in v, for a str key
In(key, v) ==
    CASE v.j = "dict" -> Returned(HasKey(v, key))
      [] v.j = "list" ->
            Returned(\E i \in DOMAIN v.items : v.items[i].j = "str" /\ v.items[i].s = key)
      [] v.j = "str" -> Returned(Contains(v.s, key))
      [] OTHER ->
            Raised("TypeError", <<"a", "r", "g", "u", "m", "e", "n", "t", " ", "o", "f", " ", "t", "y", "p", "e", " ">>
                                \o Quote(TypeName(v)) \o <<" ", "i", "s", " ", "n", "o", "t", " ", "i", "t", "e", "r", "a", "b", "l", "e">>)

NotSubscriptable(v) ==
    Raised("TypeError", Quote(TypeName(v)) \o <<" ", "o", "b", "j", "e", "c", "t", " ", "i", "s", " ", "n", "o", "t", " ", "s", "u", "b", "s", "c", "r", "i", "p", "t", "a", "b", "l", "e">>)

\* v[key], for a str key
GetItem(v, key) ==
    CASE v.j = "dict" ->
            IF HasKey(v, key) THEN Returned(Lookup(v, key))
            ELSE Raised("KeyError", Quote(key))
      [] v.j = "list" ->
            Raised("TypeError", <<"l", "i", "s", "t", " ", "i", "n", "d", "i", "c", "e", "s", " ", "m", "u", "s", "t", " ", "b", "e", " ", "i", "n", "t", "e", "g", "e", "r", "s", " ", "o", "r", " ", "s", "l", "i", "c", "e", "s", ",", " ", "n", "o", "t", " ", "s", "t", "r">>)
      [] v.j = "str" ->
            Raised("TypeError", <<"s", "t", "r", "i", "n", "g", " ", "i", "n", "d", "i", "c", "e", "s", " ", "m", "u", "s", "t", " ", "b", "e", " ", "i", "n", "t", "e", "g", "e", "r", "s", ",", " ", "n", "o", "t", " ", "'", "s", "t", "r", "'">>)
      [] OTHER -> NotSubscriptable(v)

\* v[0]
GetFirst(v) ==
    CASE v.j = "dict" -> Raised("KeyError", <<"0">>)
      [] v.j = "list" ->
            IF v.items # <<>> THEN Returned(v.items[1])
            ELSE Raised("IndexError", <<"l", "i", "s", "t", " ", "i", "n", "d", "e", "x", " ", "o", "u", "t", " ", "o", "f", " ", "r", "a", "n", "g", "e">>)
      [] v.j = "str" ->
            IF v.s # <<>> THEN Returned(JStr(<<v.s[1]>>))
            ELSE Raised("IndexError", <<"s", "t", "r", "i", "n", "g", " ", "i", "n", "d", "e", "x", " ", "o", "u", "t", " ", "o", "f", " ", "r", "a", "n", "g", "e">>)
      [] OTHER -> NotSubscriptable(v)

Choices == <<"c", "h", "o", "i", "c", "e", "s">>

Message == <<"m", "e", "s", "s", "a", "g", "e">>

Content == <<"c", "o", "n", "t", "e", "n", "t">>

LLMCallFailed == <<"L", "L", "M", " ", "c", "a", "l", "l", " ", "f", "a", "i", "l", "e", "d", ":", " ">>

UnexpectedStructure == <<"L", "L", "M", " ", "c", "a", "l", "l", " ", "f", "a", "i", "l", "e", "d", ":", " ", "U", "n", "e", "x", "p", "e", "c", "t", "e", "d", " ", "r", "e", "s", "p", "o", "n", "s", "e", " ", "s", "t", "r", "u", "c", "t", "u", "r", "e">>

\* data["choices"][0]["message"]["content"]
ContentOf(data) ==
    LET choices == GetItem(data, Choices)
    IN  IF choices.raised THEN choices
        ELSE LET first == GetFirst(choices.value)
             IN  IF first.raised THEN first
                 ELSE LET message == GetItem(first.value, Message)
                      IN  IF message.raised THEN message
                          ELSE GetItem(message.value, Content)

\* the body of the try statement: what it returns or raises, and whether
\* the response error line was printed
llm_try(string1, string2, resp) ==
    IF resp.kind = "transport"
    THEN Raised("RequestException", resp.text) @@ [printed |-> FALSE]
    ELSE IF ~resp.json
    THEN Raised("JSONDecodeError", resp.text) @@ [printed |-> FALSE]
    ELSE LET has == In(Choices, resp.data)
         IN  IF has.raised THEN has @@ [printed |-> FALSE]
             ELSE IF ~has.value
             THEN Returned(JStr(UnexpectedStructure)) @@ [printed |-> TRUE]
             ELSE ContentOf(resp.data) @@ [printed |-> FALSE]

\* call_llm_groq with an except clause for transport errors only
call_llm_groq_transport_only(string1, string2, resp) ==
    LET r == llm_try(string1, string2, resp)
    IN  IF r.raised /\ r.class = "RequestException"
        THEN Returned(JStr(LLMCallFailed \o r.text)) @@ [printed |-> r.printed]
        ELSE r

\* call_llm_groq(string1, string2) when the endpoint answers resp
call_llm_groq(string1, string2, resp) ==
    LET r == llm_try(string1, string2, resp)
    IN  IF r.raised
        THEN Returned(JStr(LLMCallFailed \o r.text)) @@ [printed |-> r.printed]
        ELSE r

\* what the endpoint can answer
Responses == <<
    [kind |-> "transport", text |-> <<"C", "o", "n", "n", "e", "c", "t", "i", "o", "n",
      " ", "r", "e", "f", "u", "s", "e", "d">>],
    [kind |-> "transport", text |-> <<>>],
    [kind |-> "body", json |-> FALSE, text |-> <<"E", "x", "p", "e", "c", "t", "i", "n",
      "g", " ", "v", "a", "l", "u", "e", ":", " ", "l", "i", "n", "e", " ", "1", " ",
      "c", "o", "l", "u", "m", "n", " ", "1", " ", "(", "c", "h", "a", "r", " ", "0",
      ")">>],
    [kind |-> "body", json |-> TRUE, data |-> JNull],
    [kind |-> "body", json |-> TRUE, data |-> JNum(7)],
    [kind |-> "body", json |-> TRUE, data |-> JBool(TRUE)],
    [kind |-> "body", json |-> TRUE, data |-> JStr(<<"o", "o", "p", "s">>)],
    [kind |-> "body", json |-> TRUE, data |-> JStr(<<"n", "o", " ", "c", "h", "o", "i",
      "c", "e", "s", " ", "h", "e", "r", "e">>)],
    [kind |-> "body", json |-> TRUE, data |-> JList(<<>>)],
    [kind |-> "body", json |-> TRUE, data |-> JList(<<JStr(<<"c", "h", "o", "i", "c",
      "e", "s">>)>>)],
    [kind |-> "body", json |-> TRUE, data |-> JDict(<<>>)],
    [kind |-> "body", json |-> TRUE, data |-> JDict(<<<<<<"e", "r", "r", "o", "r">>,
      JDict(<<<<<<"m", "e", "s", "s", "a", "g", "e">>, JStr(<<"I", "n", "v", "a", "l",
      "i", "d", " ", "A", "P", "I", " ", "K", "e", "y">>)>>>>)>>>>)],
    [kind |-> "body", json |-> TRUE, data |-> JDict(<<<<<<"c", "h", "o", "i", "c", "e",
      "s">>, JList(<<>>)>>>>)],
    [kind |-> "body", json |-> TRUE, data |-> JDict(<<<<<<"c", "h", "o", "i", "c", "e",
      "s">>, JNull>>>>)],
    [kind |-> "body", json |-> TRUE, data |-> JDict(<<<<<<"c", "h", "o", "i", "c", "e",
      "s">>, JStr(<<"a", "b", "c">>)>>>>)],
    [kind |-> "body", json |-> TRUE, data |-> JDict(<<<<<<"c", "h", "o", "i", "c", "e",
      "s">>, JDict(<<>>)>>>>)],
    [kind |-> "body", json |-> TRUE, data |-> JDict(<<<<<<"c", "h", "o", "i", "c", "e",
      "s">>, JNum(3)>>>>)],
    [kind |-> "body", json |-> TRUE, data |-> JDict(<<<<<<"c", "h", "o", "i", "c", "e",
      "s">>, JList(<<JDict(<<>>)>>)>>>>)],
    [kind |-> "body", json |-> TRUE, data |-> JDict(<<<<<<"c", "h", "o", "i", "c", "e",
      "s">>, JList(<<JNull>>)>>>>)],
    [kind |-> "body", json |-> TRUE, data |-> JDict(<<<<<<"c", "h", "o", "i", "c", "e",
      "s">>, JList(<<JStr(<<"s">>)>>)>>>>)],
    [kind |-> "body", json |-> TRUE, data |-> JDict(<<<<<<"c", "h", "o", "i", "c", "e",
      "s">>, JList(<<JList(<<>>)>>)>>>>)],
    [kind |-> "body", json |-> TRUE, data |-> JDict(<<<<<<"c", "h", "o", "i", "c", "e",
      "s">>, JList(<<JDict(<<<<<<"m", "e", "s", "s", "a", "g", "e">>,
      JDict(<<>>)>>>>)>>)>>>>)],
    [kind |-> "body", json |-> TRUE, data |-> JDict(<<<<<<"c", "h", "o", "i", "c", "e",
      "s">>, JList(<<JDict(<<<<<<"m", "e", "s", "s", "a", "g", "e">>, JStr(<<"h",
      "i">>)>>>>)>>)>>>>)],
    [kind |-> "body", json |-> TRUE, data |-> JDict(<<<<<<"c", "h", "o", "i", "c", "e",
      "s">>, JList(<<JDict(<<<<<<"m", "e", "s", "s", "a", "g", "e">>,
      JNull>>>>)>>)>>>>)],
    [kind |-> "body", json |-> TRUE, data |-> JDict(<<<<<<"c", "h", "o", "i", "c", "e",
      "s">>, JList(<<JDict(<<<<<<"m", "e", "s", "s", "a", "g", "e">>,
      JList(<<JStr(<<"c", "o", "n", "t", "e", "n", "t">>)>>)>>>>)>>)>>>>)],
    [kind |-> "body", json |-> TRUE, data |-> JDict(<<<<<<"c", "h", "o", "i", "c", "e",
      "s">>, JList(<<JDict(<<<<<<"m", "e", "s", "s", "a", "g", "e">>, JDict(<<<<<<"r",
      "o", "l", "e">>, JStr(<<"a", "s", "s", "i", "s", "t", "a", "n", "t">>)>>, <<<<"c",
      "o", "n", "t", "e", "n", "t">>, JStr(<<"{", "\"", "G", "r", "a", "d", "e", "\"",
      ":", " ", "\"", "5", "3", "\"", "}">>)>>>>)>>>>)>>)>>>>)],
    [kind |-> "body", json |-> TRUE, data |-> JDict(<<<<<<"c", "h", "o", "i", "c", "e",
      "s">>, JList(<<JDict(<<<<<<"m", "e", "s", "s", "a", "g", "e">>, JDict(<<<<<<"c",
      "o", "n", "t", "e", "n", "t">>, JNull>>>>)>>>>)>>)>>, <<<<"i", "d">>,
      JStr(<<"x">>)>>>>)],
    [kind |-> "body", json |-> TRUE, data |-> JDict(<<<<<<"c", "h", "o", "i", "c", "e",
      "s">>, JList(<<JDict(<<<<<<"m", "e", "s", "s", "a", "g", "e">>, JDict(<<<<<<"c",
      "o", "n", "t", "e", "n", "t">>, JStr(<<>>)>>>>)>>>>), JDict(<<<<<<"m", "e", "s",
      "s", "a", "g", "e">>, JDict(<<<<<<"c", "o", "n", "t", "e", "n", "t">>, JStr(<<"s",
      "e", "c", "o", "n", "d">>)>>>>)>>>>)>>)>>>>)]
    >>

(***************************************************************************)
(* main.py: compare_strings, print_report and fields_missing.              *)
(***************************************************************************)
Dash == <<"-">>

\* v or "-"
OrDash(v) == IF Truthy(v) THEN v ELSE Dash

\* (aspect, v1 or "-", v2 or "-", status)
ResultRow(aspect, v1, v2, st) == <<aspect, OrDash(v1), OrDash(v2), st>>

\* an append that leaves out the fields absent on both sides
AppendResultIfMentioned(results, aspect, v1, v2, st) ==
    IF ~Truthy(v1) /\ ~Truthy(v2) THEN results
    ELSE Append(results, ResultRow(aspect, v1, v2, st))

\* results.append((aspect, v1 or "-", v2 or "-", status))
AppendResult(results, aspect, v1, v2, st) ==
    Append(results, ResultRow(aspect, v1, v2, st))

\* fields_missing(results)
fields_missing(results) ==
    \E i \in DOMAIN results : results[i][2] = Dash \/ results[i][3] = Dash

\* table.field_names
FieldNames == <<"Aspect", "String 1", "String 2", "Match Status">>

\* what print_report(string1, string2, results) prints
print_report(string1, string2, results) ==
    <<[print |-> "String 1", text |-> string1],
      [print |-> "String 2", text |-> string2],
      [print |-> "table", field_names |-> FieldNames, rows |-> results]>>

MaxTierBWords == 1

TierBVocabulary == <<
    <<"O", "P", "C", "_", "5", "3", " ">>,
    <<"b", "u", "l", "k", ";">>,
    <<"1", "2", "m", "m", " ">>
    >>

TierBSamples == {
    <<"T", "M", "T", "-", "F", "E", "_", "5", "0", "0", "D", "-", "3", "2", "m", "m", "-", "1", "1", ".", "0", "0", "0", "m", "t", "r", ".">>,
    <<"T", "M", "T", " ", "F", "e", " ", "5", "0", "0", "D", " ", "1", "2", "m", "m", " ", "S", "T", "R", "A", "I", "G", "H", "T", " ", "1", "2", "0", "0", "0", " ", "m", "m", " ", "I", "S", " ", "1", "7", "8", "6">>,
    <<"t", "m", "t", " ", "f", "e", "5", "0", "0", "d", " ", "1", "2", ".", "0", " ", "M", "M", " ", "s", "t", "r", "a", "i", "g", "h", "t", " ", "b", "a", "r", "s", " ", "1", "2", "0", "0", "0", "M", "M", " ", "i", "s", "1", "7", "8", "6">>
    }

\* the descriptions typed at the two prompts of main.py
TierBTexts == TierBSamples \cup Phrases(TierBVocabulary, MaxTierBWords)

\* what fuzz.ratio and the model can answer when compare_field is given v1
\* and v2: neither is consulted unless both are present and differ
OracleAnswers(v1, v2) ==
    IF Truthy(v1) /\ Truthy(v2) /\ v1 # v2
    THEN {FuzzyThreshold, FuzzyThreshold + 1}
            \X {Raises, Similarity(SemanticThreshold), Similarity(SemanticThreshold + 1)}
    ELSE {<<0, Similarity(0)>>}

NoResponse == [kind |-> "none"]

InitTierB ==
    /\ prog = "main.py"
    /\ pc = "preprocess"
    /\ in1 \in TierBTexts /\ in2 \in TierBTexts
    /\ s1 = Unused /\ s2 = Unused
    /\ ai = 1 /\ rows = <<>>
    /\ val1 = Unused /\ val2 = Unused /\ ratio = 0 /\ sem = Similarity(0)
    /\ status = Unused
    /\ oracleCalls = 0 /\ llmCalls = 0
    /\ response = NoResponse /\ llmOut = Unused
    /\ out = <<>>
    /\ pair_num = Unused /\ aspects = Unused
    /\ d1 = EmptyRecord /\ d2 = EmptyRecord
    /\ IdleMain

tierBIdle == <<prog, in1, in2, pair_num, aspects, d1, d2, round, exitTyped>>

\* s1 = preprocess(string1); s2 = preprocess(string2); results = []
TBPreprocess ==
    /\ prog = "main.py" /\ pc = "preprocess"
    /\ s1' = preprocess(in1)
    /\ s2' = preprocess(in2)
    /\ rows' = <<>>
    /\ pc' = "aspect"
    /\ UNCHANGED <<ai, val1, val2, ratio, sem, status, oracleCalls, llmCalls, response,
                   llmOut, out>>
    /\ UNCHANGED tierBIdle

\* one turn of the loop over aspects, compare_field returning
TBAspect ==
    /\ prog = "main.py" /\ pc = "aspect"
    /\ val1' = Extract(ai, s1)
    /\ val2' = Extract(ai, s2)
    /\ \E answer \in OracleAnswers(val1', val2') :
           /\ ratio' = answer[1]
           /\ sem' = answer[2]
    /\ LET r == compare_field(val1', val2', ratio', sem')
       IN  /\ ~r.raised
           /\ status' = r.status
           /\ oracleCalls' = oracleCalls + r.calls
           /\ rows' = AppendResult(rows, TierBAspects[ai], val1', val2', r.status)
    /\ ai' = ai + 1
    /\ pc' = IF ai = Len(TierBAspects) THEN "report" ELSE "aspect"
    /\ UNCHANGED <<s1, s2, llmCalls, response, llmOut, out>>
    /\ UNCHANGED tierBIdle

\* one turn of the loop over aspects, the model's exception leaving
\* compare_field and compare_strings
TBAspectRaises ==
    /\ prog = "main.py" /\ pc = "aspect"
    /\ val1' = Extract(ai, s1)
    /\ val2' = Extract(ai, s2)
    /\ \E answer \in OracleAnswers(val1', val2') :
           /\ ratio' = answer[1]
           /\ sem' = answer[2]
    /\ LET r == compare_field(val1', val2', ratio', sem')
       IN  /\ r.raised
           /\ oracleCalls' = oracleCalls + r.calls
    /\ pc' = "raised"
    /\ UNCHANGED <<s1, s2, ai, rows, status, llmCalls, response, llmOut, out>>
    /\ UNCHANGED tierBIdle

\* print_report(string1, string2, results); if fields_missing(results)
TBPrintReport ==
    /\ prog = "main.py" /\ pc = "report"
    /\ out' = out \o print_report(in1, in2, rows)
    /\ pc' = IF fields_missing(rows) THEN "fallback" ELSE "done"
    /\ UNCHANGED <<s1, s2, ai, rows, val1, val2, ratio, sem, status, oracleCalls,
                   llmCalls, response, llmOut>>
    /\ UNCHANGED tierBIdle

\* the fallback: llm_output = call_llm_groq(string1, string2); print(llm_output)
TBFallback ==
    /\ prog = "main.py" /\ pc = "fallback"
    /\ \E i \in DOMAIN Responses :
           LET r == call_llm_groq(in1, in2, Responses[i])
           IN  /\ response' = Responses[i]
               /\ llmOut' = r
               /\ out' = out \o <<[print |-> "falling back"]>>
                           \o (IF r.printed
                               THEN <<[print |-> "response error", data |-> Responses[i].data]>>
                               ELSE <<>>)
                           \o (IF r.raised THEN <<>>
                               ELSE <<[print |-> "llm_output", value |-> r.value]>>)
               /\ pc' = IF r.raised THEN "raised" ELSE "done"
    /\ llmCalls' = llmCalls + 1
    /\ UNCHANGED <<s1, s2, ai, rows, val1, val2, ratio, sem, status, oracleCalls>>
    /\ UNCHANGED tierBIdle

NextTierB ==
    \/ TBPreprocess
    \/ TBAspect
    \/ TBAspectRaises
    \/ TBPrintReport
    \/ TBFallback

SpecTierB == InitTierB /\ [][NextTierB]_vars

\* the run of compare_strings is over
TierBOver == prog = "main.py" /\ pc \in {"done", "raised"}

\* print_report has returned, and nothing was printed since
TierBPrinted == prog = "main.py" /\ pc \in {"fallback", "done"} /\ llmCalls = 0

ValueOf(i, text) == Extract(i, preprocess(text))

SomeFieldAbsent ==
    \E i \in DOMAIN TierBAspects : ValueOf(i, in1) = None \/ ValueOf(i, in2) = None

AllFieldsAbsent ==
    \A i \in DOMAIN TierBAspects : ValueOf(i, in1) = None /\ ValueOf(i, in2) = None

\* C4: a run of the Tier B compare_strings issues the LLM call exactly once
\* if one of the six fields is absent on a side and never if all six are
\* present on both sides; when all six are absent on both sides every field
\* reports Not Mentioned and the fallback is invoked once.
C4_FallbackOnce ==
    TierBOver =>
        /\ llmCalls = IF SomeFieldAbsent THEN 1 ELSE 0
        /\ AllFieldsAbsent =>
              /\ Len(rows) = Len(TierBAspects)
              /\ \A i \in DOMAIN rows : rows[i][4] = "Not Mentioned"

\* C8 as stated: the results passed to print_report contain no row in which
\* both values are the absence sentinel.
C8_NoBothAbsentRow ==
    TierBPrinted =>
        \A i \in DOMAIN out[3].rows :
            ~(out[3].rows[i][2] = Dash /\ out[3].rows[i][3] = Dash)

\* C8, amended: the results passed to print_report hold one row for each of
\* the six aspects, in order, with "-" for an absent value; a field absent on
\* both sides keeps its row, with the status Not Mentioned.
C8_RowPerAspect ==
    TierBPrinted =>
        /\ Len(out[3].rows) = Len(TierBAspects)
        /\ \A i \in DOMAIN TierBAspects :
              LET row == out[3].rows[i]
              IN  /\ row[1] = TierBAspects[i]
                  /\ row[2] = OrDash(ValueOf(i, in1))
                  /\ row[3] = OrDash(ValueOf(i, in2))
                  /\ (row[2] = Dash /\ row[3] = Dash) <=> row[4] = "Not Mentioned"

\* a printed report with a row absent on both sides next to a row that is not
C8_Witness ==
    /\ TierBPrinted
    /\ \E i, k \in DOMAIN out[3].rows :
          /\ out[3].rows[i][2] = Dash /\ out[3].rows[i][3] = Dash
          /\ out[3].rows[k][2] # Dash

\* the response has the shape the code reads: a dict whose "choices" is a
\* list that starts with a dict whose "message" is a dict with a "content"
WellShaped(resp) ==
    /\ resp.kind = "body" /\ resp.json
    /\ resp.data.j = "dict" /\ HasKey(resp.data, Choices)
    /\ LET choices == Lookup(resp.data, Choices)
       IN  /\ choices.j = "list" /\ choices.items # <<>>
           /\ choices.items[1].j = "dict" /\ HasKey(choices.items[1], Message)
           /\ LET message == Lookup(choices.items[1], Message)
              IN  message.j = "dict" /\ HasKey(message, Content)

MessageContent(resp) ==
    Lookup(Lookup(Lookup(resp.data, Choices).items[1], Message), Content)

FailurePrefix == <<"L", "L", "M", " ", "c", "a", "l", "l", " ", "f", "a", "i", "l", "e", "d", ":">>

IsFailureString(v) ==
    /\ v.j = "str"
    /\ Len(v.s) >= Len(FailurePrefix)
    /\ SubSeq(v.s, 1, Len(FailurePrefix)) = FailurePrefix

\* C6: call_llm_groq never raises: it returns the raw message content of a
\* well-shaped response and, for every other outcome of the request, a
\* string that begins with "LLM call failed:"; the fallback never aborts
\* compare_strings.
C6_FallbackNeverRaises ==
    (prog = "main.py" /\ llmCalls > 0) =>
        /\ llmCalls = 1
        /\ pc = "done"
        /\ ~llmOut.raised
        /\ IF WellShaped(response) THEN llmOut.value = MessageContent(response)
           ELSE IsFailureString(llmOut.value)

\* a run that ended after a JSON answer whose choices[0] has no message
C6_Witness ==
    /\ prog = "main.py" /\ pc = "done" /\ llmCalls = 1
    /\ response.kind = "body" /\ response.json
    /\ response.data.j = "dict" /\ HasKey(response.data, Choices)
    /\ ~WellShaped(response)
    /\ IsFailureString(llmOut.value)

====
